---- MODULE Spec2Model ----
(***************************************************************************)
(* Model of the streaming extraction and repair session of                 *)
(* src/app/api/generate-ai-code-stream/route.ts (the background task of    *)
(* POST, lines 1659-2128).  Text is a sequence of one-character strings.   *)
(***************************************************************************)
EXTENDS Integers, Sequences, FiniteSets, TLC

(***************************************************************************)
(* Bounds of the exploration.                                              *)
(***************************************************************************)
\* at most this many chunks when the chunking is chosen freely
MaxChunks == 2

(***************************************************************************)
(* String primitives of the JavaScript runtime.                            *)
(***************************************************************************)
Min(S) == CHOOSE x \in S : \A y \in S : x <= y

Max(S) == CHOOSE x \in S : \A y \in S : x >= y

\* the characters JavaScript's \s and String.prototype.trim treat as blank
WhiteSpace == {" ", "\n", "\t", "\r"}

\* the characters of \w
WordChars ==
  {"a","b","c","d","e","f","g","h","i","j","k","l","m","n","o","p","q","r",
   "s","t","u","v","w","x","y","z","A","B","C","D","E","F","G","H","I","J",
   "K","L","M","N","O","P","Q","R","S","T","U","V","W","X","Y","Z","0","1",
   "2","3","4","5","6","7","8","9","_"}

\* s.startsWith(p, i - 1), positions counted from 1
StartsWithAt(s, p, i) ==
  /\ i >= 1
  /\ i + Len(p) - 1 <= Len(s)
  /\ \A k \in 1..Len(p) : s[i + k - 1] = p[k]

\* s.indexOf(p, from - 1) + 1 : the first position >= from where p occurs, 0 if none
IndexOf(s, p, from) ==
  LET hits == {i \in from..(Len(s) - Len(p) + 1) : StartsWithAt(s, p, i)}
  IN  IF hits = {} THEN 0 ELSE Min(hits)

\* s.includes(p)
Includes(s, p) == IndexOf(s, p, 1) # 0

\* s.endsWith(p)
EndsWith(s, p) == Len(p) <= Len(s) /\ StartsWithAt(s, p, Len(s) - Len(p) + 1)

\* s.substring(i - 1) : the suffix starting at position i
Substring(s, i) == SubSeq(s, i, Len(s))

\* s.trim()
Trim(s) ==
  LET keep == {i \in 1..Len(s) : s[i] \notin WhiteSpace}
      back == {i \in 1..Len(s) : s[Len(s) + 1 - i] \notin WhiteSpace}
  IN  IF keep = {} THEN <<>>
      ELSE SubSeq(s, Min(keep), Len(s) + 1 - Min(back))

\* (s.match(/p/g) || []).length for a literal p that cannot overlap itself
CountOf(s, p) == Cardinality({i \in 1..Len(s) : StartsWithAt(s, p, i)})

\* arr.includes(x)
ArrIncludes(arr, x) == \E i \in 1..Len(arr) : arr[i] = x

(***************************************************************************)
(* The markers of the input grammar.                                       *)
(***************************************************************************)
FILE_OPEN == <<"<","f","i","l","e"," ","p","a","t","h","=","\"">>

FILE_CLOSE == <<"<","/","f","i","l","e",">">>

PACKAGE_OPEN == <<"<","p","a","c","k","a","g","e",">">>

PACKAGE_CLOSE == <<"<","/","p","a","c","k","a","g","e",">">>

PACKAGES_OPEN == <<"<","p","a","c","k","a","g","e","s",">">>

PACKAGES_CLOSE == <<"<","/","p","a","c","k","a","g","e","s",">">>

\* the tag names of the tag tracker's two regular expressions
TagNames ==
  { <<"f","i","l","e">>,
    <<"p","a","c","k","a","g","e">>,
    <<"p","a","c","k","a","g","e","s">>,
    <<"e","x","p","l","a","n","a","t","i","o","n">>,
    <<"c","o","m","m","a","n","d">>,
    <<"s","t","r","u","c","t","u","r","e">>,
    <<"t","e","m","p","l","a","t","e">> }

\* /<(file|package|packages|explanation|command|structure|template)\b/.test(t)
HasOpenTag(t) ==
  \E i \in 1..Len(t) :
    /\ t[i] = "<"
    /\ \E n \in TagNames :
         /\ StartsWithAt(t, n, i + 1)
         /\ \/ i + Len(n) = Len(t)
            \/ t[i + Len(n) + 1] \notin WordChars

\* /<\/(file|package|packages|explanation|command|structure|template)>/.test(t)
HasCloseTag(t) ==
  \E i \in 1..Len(t) :
    /\ StartsWithAt(t, <<"<","/">>, i)
    /\ \E n \in TagNames : StartsWithAt(t, n \o <<">">>, i + 2)

(***************************************************************************)
(* The regular expressions of the session, each as the matcher the         *)
(* JavaScript engine runs: leftmost match, then the search resumes behind  *)
(* the match (flag g).                                                     *)
(***************************************************************************)
\* the position of the first " at or after i, 0 if none
NextQuote(s, i) == IndexOf(s, <<"\"">>, i)

\* /<package>([^<]+)<\/package>/g : all matches in s from position from on,
\* as records [name |-> group 1, last |-> position of the match's last character]
RECURSIVE PackageMatches(_, _)
PackageMatches(s, from) ==
  LET i == IndexOf(s, PACKAGE_OPEN, from)
      j == IndexOf(s, <<"<">>, i + Len(PACKAGE_OPEN))
  IN  IF i = 0 THEN <<>>
      ELSE IF j > i + Len(PACKAGE_OPEN) /\ StartsWithAt(s, PACKAGE_CLOSE, j)
           THEN <<[name |-> SubSeq(s, i + Len(PACKAGE_OPEN), j - 1),
                   last |-> j + Len(PACKAGE_CLOSE) - 1]>>
                \o PackageMatches(s, j + Len(PACKAGE_CLOSE))
           ELSE PackageMatches(s, i + 1)

\* text.match(/<file path="([^"]+)"/) : group 1 of the first match, or null
RECURSIVE PathMatch(_, _)
PathMatch(s, from) ==
  LET i == IndexOf(s, FILE_OPEN, from)
      q == NextQuote(s, i + Len(FILE_OPEN))
  IN  IF i = 0 \/ q = 0 THEN [found |-> FALSE, path |-> <<>>]
      ELSE IF q > i + Len(FILE_OPEN)
           THEN [found |-> TRUE, path |-> SubSeq(s, i + Len(FILE_OPEN), q - 1)]
           ELSE PathMatch(s, i + 1)

\* /<file path="([^"]+)">([\s\S]*?)<\/file>/g  (toEnd = FALSE) and
\* /<file path="([^"]+)">([\s\S]*?)(?:<\/file>|$)/g  (toEnd = TRUE) :
\* all matches in s from position from on, as records
\* [path |-> group 1, content |-> group 2, first, last |-> the span of the match]
RECURSIVE FileMatches(_, _, _)
FileMatches(s, from, toEnd) ==
  LET i == IndexOf(s, FILE_OPEN, from)
      q == NextQuote(s, i + Len(FILE_OPEN))
      c == IndexOf(s, FILE_CLOSE, q + 2)
  IN  IF i = 0 \/ q = 0 THEN <<>>
      ELSE IF q > i + Len(FILE_OPEN) /\ StartsWithAt(s, <<">">>, q + 1)
                /\ (c # 0 \/ toEnd)
           THEN IF c # 0
                THEN <<[path |-> SubSeq(s, i + Len(FILE_OPEN), q - 1),
                        content |-> SubSeq(s, q + 2, c - 1),
                        first |-> i, last |-> c + Len(FILE_CLOSE) - 1]>>
                     \o FileMatches(s, c + Len(FILE_CLOSE), toEnd)
                ELSE <<[path |-> SubSeq(s, i + Len(FILE_OPEN), q - 1),
                        content |-> SubSeq(s, q + 2, Len(s)),
                        first |-> i, last |-> Len(s)]>>
           ELSE FileMatches(s, i + 1, toEnd)

(***************************************************************************)
(* Progress events (sendProgress, lines 145-149): one record per event,    *)
(* every event with the same fields so that events compare.                *)
(***************************************************************************)
Event(type) ==
  [type |-> type, text |-> <<>>, name |-> <<>>, path |-> <<>>, index |-> 0,
   files |-> 0, components |-> 0, packagesToInstall |-> <<>>, warnings |-> <<>>]

ConversationEvent(t) == [Event("conversation") EXCEPT !.text = t]

\* a `stream` event that carries the chunk without its surrounding blanks (a
\* mutant of StreamEvent)
StreamEventTrimmed(t) == [Event("stream") EXCEPT !.text = Trim(t)]

StreamEvent(t) == [Event("stream") EXCEPT !.text = t]

PackageEvent(n) == [Event("package") EXCEPT !.name = n]

\* filePath.split('/').pop()?.replace('.jsx', '') || 'Component'
ComponentName(path) ==
  LET slashes == {i \in 1..Len(path) : path[i] = "/"}
      base == IF slashes = {} THEN path ELSE Substring(path, Max(slashes) + 1)
      x == IndexOf(base, <<".","j","s","x">>, 1)
      name == IF x = 0 THEN base
              ELSE SubSeq(base, 1, x - 1) \o Substring(base, x + 4)
  IN  IF name = <<>> THEN <<"C","o","m","p","o","n","e","n","t">> ELSE name

ComponentEvent(path, index) ==
  [Event("component") EXCEPT !.name = ComponentName(path), !.path = path,
                             !.index = index]

AppEvent(path) == [Event("app") EXCEPT !.path = path]

\* the progress event of a finished file record (lines 1756-1771, 1866-1880)
FileProgress(path, index) ==
  IF Includes(path, <<"c","o","m","p","o","n","e","n","t","s","/">>)
  THEN <<ComponentEvent(path, index)>>
  ELSE IF Includes(path, <<"A","p","p",".","j","s","x">>)
       THEN <<AppEvent(path)>>
       ELSE <<>>

\* the push of every offered name, without the includes guard (a mutant of
\* AddPackages)
AddPackagesUnguarded(pkgs, names) == pkgs \o names

\* the guarded push of a dependency name: packagesToInstall after the names
\* of the sequence names have been offered in order
RECURSIVE AddPackages(_, _)
AddPackages(pkgs, names) ==
  IF names = <<>> THEN pkgs
  ELSE AddPackages(IF ArrIncludes(pkgs, Head(names)) THEN pkgs
                   ELSE Append(pkgs, Head(names)),
                   Tail(names))

\* one `package` event for each name pushed between before and after
PackageEvents(before, after) ==
  [k \in 1..(Len(after) - Len(before)) |-> PackageEvent(after[Len(before) + k])]

(***************************************************************************)
(* Dependency collection after the stream (lines 1788-1863).               *)
(***************************************************************************)
\* /<packages>([\s\S]*?)<\/packages>/g : group 1 of all matches from from on
RECURSIVE PackagesMatches(_, _)
PackagesMatches(s, from) ==
  LET i == IndexOf(s, PACKAGES_OPEN, from)
      c == IndexOf(s, PACKAGES_CLOSE, i + Len(PACKAGES_OPEN))
  IN  IF i = 0 \/ c = 0 THEN <<>>
      ELSE <<SubSeq(s, i + Len(PACKAGES_OPEN), c - 1)>>
           \o PackagesMatches(s, c + Len(PACKAGES_CLOSE))

\* s.split(/[\n,]+/)
RECURSIVE SplitList(_)
SplitList(s) ==
  LET seps == {i \in 1..Len(s) : s[i] \in {"\n", ","}}
      i == Min(seps)
      rest == {k \in i..Len(s) : s[k] \notin {"\n", ","}}
  IN  IF seps = {} THEN <<s>>
      ELSE IF rest = {} THEN <<SubSeq(s, 1, i - 1), <<>> >>
           ELSE <<SubSeq(s, 1, i - 1)>> \o SplitList(Substring(s, Min(rest)))

\* packagesContent.split(/[\n,]+/).map(pkg => pkg.trim()).filter(pkg => pkg.length > 0)
PackagesList(content) ==
  LET parts == SplitList(Trim(content))
  IN  SelectSeq([k \in 1..Len(parts) |-> Trim(parts[k])], LAMBDA x : x # <<>>)

\* the names of all <packages> directives of s, in order
RECURSIVE Flatten(_)
Flatten(ss) == IF ss = <<>> THEN <<>> ELSE Head(ss) \o Flatten(Tail(ss))

PackagesNames(s) ==
  LET ms == PackagesMatches(s, 1)
  IN  Flatten([k \in 1..Len(ms) |-> PackagesList(ms[k])])

\* the first position >= i of s that holds no blank (Len(s) + 1 if none)
SkipBlank(s, i) ==
  LET stop == {k \in i..Len(s) : s[k] \notin WhiteSpace}
  IN  IF stop = {} THEN Len(s) + 1 ELSE Min(stop)

\* the first position >= i of s that holds no \w character
SkipWord(s, i) ==
  LET stop == {k \in i..Len(s) : s[k] \notin WordChars}
  IN  IF stop = {} THEN Len(s) + 1 ELSE Min(stop)

(***************************************************************************)
(* The pieces of importRegex (line 1816).  Each takes the position where   *)
(* it has to match and gives the position behind its match, 0 when it      *)
(* does not match or when the piece before it did not (position 0).        *)
(***************************************************************************)
\* the literal p
Lit(s, p, i) == IF StartsWithAt(s, p, i) THEN i + Len(p) ELSE 0

\* \s+
Blank(s, i) ==
  IF i >= 1 /\ i <= Len(s) /\ s[i] \in WhiteSpace THEN SkipBlank(s, i) ELSE 0

\* \s*
OptBlank(s, i) == IF i >= 1 THEN SkipBlank(s, i) ELSE 0

\* \w+
Word(s, i) ==
  IF i >= 1 /\ i <= Len(s) /\ s[i] \in WordChars THEN SkipWord(s, i) ELSE 0

\* [^}]*\}
ToBrace(s, i) ==
  IF i >= 1 /\ IndexOf(s, <<"}">>, i) # 0 THEN IndexOf(s, <<"}">>, i) + 1 ELSE 0

\* a|b : the regular expression engine takes the first alternative that matches
Alt(a, b) == IF a # 0 THEN a ELSE b

\* (?:\{[^}]*\}|\*\s+as\s+\w+|\w+)
ImportSpecifier(s, i) ==
  Alt(ToBrace(s, Lit(s, <<"{">>, i)),
      Alt(Word(s, Blank(s, Lit(s, <<"a","s">>, Blank(s, Lit(s, <<"*">>, i))))),
          Word(s, i)))

\* (?:\s*,\s*specifier)* behind a specifier that ends before position e
RECURSIVE ImportMore(_, _)
ImportMore(s, e) ==
  LET next == ImportSpecifier(s, OptBlank(s, Lit(s, <<",">>, OptBlank(s, e))))
  IN  IF e = 0 THEN 0
      ELSE IF next # 0 THEN ImportMore(s, next) ELSE e

\* specifier(?:\s*,\s*specifier)*\s+from\s+
ImportClause(s, i) ==
  Blank(s, Lit(s, <<"f","r","o","m">>, Blank(s, ImportMore(s, ImportSpecifier(s, i)))))

\* ['"]([^'"]+)['"] : the position of the closing quote
QuotedPath(s, i) ==
  LET quotes == {k \in (i + 1)..Len(s) : s[k] \in {"'", "\""}}
  IN  IF i >= 1 /\ i <= Len(s) /\ s[i] \in {"'", "\""} /\ quotes # {}
         /\ Min(quotes) > i + 1
      THEN Min(quotes) ELSE 0

\* importRegex at position i : the position of the match's last character
ImportAt(s, i) ==
  LET p == Blank(s, Lit(s, <<"i","m","p","o","r","t">>, i))
  IN  Alt(QuotedPath(s, ImportClause(s, p)), QuotedPath(s, p))

\* group 1 of the match that ends with the closing quote at position e
ImportGroup(s, e) ==
  SubSeq(s, Max({k \in 1..(e - 1) : s[k] \in {"'", "\""}}) + 1, e - 1)

\* group 1 of all matches of importRegex from position from on
RECURSIVE ImportPaths(_, _)
ImportStep(s, i, e) ==
  IF e = 0 THEN ImportPaths(s, i + 1)
  ELSE <<ImportGroup(s, e)>> \o ImportPaths(s, e + 1)

ImportPaths(s, from) ==
  LET i == IndexOf(s, <<"i","m","p","o","r","t">>, from)
  IN  IF i = 0 THEN <<>> ELSE ImportStep(s, i, ImportAt(s, i))

\* importPath.split('/').slice(0, n).join('/') for n = 1, 2
FirstSegments(path, n) ==
  LET slashes == {i \in 1..Len(path) : path[i] = "/"}
      cut == {i \in slashes : Cardinality({k \in slashes : k < i}) = n - 1}
  IN  IF cut = {} THEN path ELSE SubSeq(path, 1, Min(cut) - 1)

\* the filter and the normalisation of one import path (lines 1822-1828):
\* <<package name>> or <<>> when the path is skipped
ImportPackage(importPath) ==
  IF /\ ~StartsWithAt(importPath, <<".">>, 1)
     /\ ~StartsWithAt(importPath, <<"/">>, 1)
     /\ importPath # <<"r","e","a","c","t">>
     /\ importPath # <<"r","e","a","c","t","-","d","o","m">>
     /\ ~StartsWithAt(importPath, <<"@","/">>, 1)
  THEN <<IF StartsWithAt(importPath, <<"@">>, 1)
         THEN FirstSegments(importPath, 2) ELSE FirstSegments(importPath, 1)>>
  ELSE <<>>

extractPackagesFromCode(content) ==
  LET paths == ImportPaths(content, 1)
  IN  AddPackages(<<>>, Flatten([k \in 1..Len(paths) |-> ImportPackage(paths[k])]))

(***************************************************************************)
(* Fault detection (lines 1887-1928) and the choice of the files to        *)
(* regenerate (lines 1940-1978).                                           *)
(***************************************************************************)
Abs(x) == IF x < 0 THEN -x ELSE x

\* filePath.match(/\.(jsx?|tsx?)$/)
IsScriptPath(path) ==
  \/ EndsWith(path, <<".","j","s">>)
  \/ EndsWith(path, <<".","j","s","x">>)
  \/ EndsWith(path, <<".","t","s">>)
  \/ EndsWith(path, <<".","t","s","x">>)

Warning(kind, path, open, closed) ==
  [kind |-> kind, path |-> path, open |-> open, closed |-> closed]

\* the warnings pushed for one match of truncationCheckRegex (lines 1903-1927)
FileWarnings(m) ==
  LET trimmed == Trim(m.content)
      openBraces == CountOf(m.content, <<"{">>)
      closeBraces == CountOf(m.content, <<"}">>)
  IN  (IF EndsWith(trimmed, <<"<">>) \/ EndsWith(trimmed, <<"<","/">>)
       THEN <<Warning("incomplete-tag", m.path, 0, 0)>> ELSE <<>>)
      \o (IF IsScriptPath(m.path) /\ Abs(openBraces - closeBraces) > 3
          THEN <<Warning("unbalanced-braces", m.path, openBraces, closeBraces)>>
          ELSE <<>>)
      \o (IF /\ IsScriptPath(m.path)
             /\ Len(m.content) < 20
             /\ Includes(m.content, <<"f","u","n","c","t","i","o","n">>)
             /\ ~Includes(m.content, <<"}">>)
          THEN <<Warning("severely-truncated", m.path, 0, 0)>> ELSE <<>>)

\* fault detection without the comparison of the marker counts (a mutant of
\* DetectTruncation)
DetectTruncationNoCount(code) ==
  LET ms == FileMatches(code, 1, TRUE)
  IN  Flatten([k \in 1..Len(ms) |-> FileWarnings(ms[k])])

\* truncationWarnings as computed from the output (lines 1888-1928)
DetectTruncation(code) ==
  LET fileOpenCount == CountOf(code, FILE_OPEN)
      fileCloseCount == CountOf(code, FILE_CLOSE)
      ms == FileMatches(code, 1, TRUE)
  IN  (IF fileOpenCount # fileCloseCount
       THEN <<Warning("unclosed", <<>>, fileOpenCount, fileCloseCount)>>
       ELSE <<>>)
      \o Flatten([k \in 1..Len(ms) |-> FileWarnings(ms[k])])

\* content.match(/<\/[a-zA-Z0-9]+>/)
HasClosingHtmlTag(content) ==
  \E i \in 1..Len(content) :
    /\ StartsWithAt(content, <<"<","/">>, i)
    /\ LET e == SkipWord(content, i + 2)
           u == {k \in (i + 2)..(e - 1) : content[k] = "_"}
           stop == IF u = {} THEN e ELSE Min(u)
       IN  stop > i + 2 /\ stop <= Len(content) /\ content[stop] = ">"

\* isTruncated of one match of the second fileRegex (lines 1946-1973)
IsTruncated(m) ==
  LET content == m.content
      trimmed == Trim(content)
      hasEllipsis ==
        /\ Includes(content, <<".",".",".">>)
        /\ ~Includes(content, <<".",".",".","r","e","s","t">>)
        /\ ~Includes(content, <<".",".",".","p","r","o","p","s">>)
        /\ ~Includes(content, <<"s","p","r","e","a","d">>)
      endsAbruptly ==
        \/ EndsWith(trimmed, <<".",".",".">>)
        \/ EndsWith(trimmed, <<",">>)
        \/ EndsWith(trimmed, <<"(">>)
      hasUnclosedTags ==
        /\ Includes(content, <<"<","/">>)
        /\ ~HasClosingHtmlTag(content)
        /\ Includes(content, <<"<">>)
      tooShort == Len(content) < 50 /\ IsScriptPath(m.path)
      hasUnmatchedBraces ==
        Abs(CountOf(content, <<"{">>) - CountOf(content, <<"}">>)) > 1
  IN  \/ hasEllipsis /\ endsAbruptly
      \/ hasUnclosedTags
      \/ tooShort /\ ~Includes(content, <<"e","x","p","o","r","t">>)
      \/ hasUnmatchedBraces

\* truncatedFiles as collected from the output (lines 1941-1978)
SelectTruncated(code) ==
  LET ms == SelectSeq(FileMatches(code, 1, TRUE), IsTruncated)
  IN  [k \in 1..Len(ms) |-> ms[k].path]

(***************************************************************************)
(* Splicing a regenerated file into the output (lines 2029-2047).          *)
(***************************************************************************)
\* the character U+0060, written as a name
BackTick == "backtick"

\* cleanContent (lines 2036-2042): group 1 of the first match of the fenced
\* block expression (fence, \w*, newline, lazy body, fence), else the text
CleanContent(completed) ==
  LET fence == <<BackTick, BackTick, BackTick>>
      starts == {k \in 1..Len(completed) :
                   /\ StartsWithAt(completed, fence, k)
                   /\ SkipWord(completed, k + 3) <= Len(completed)
                   /\ completed[SkipWord(completed, k + 3)] = "\n"
                   /\ IndexOf(completed, fence, SkipWord(completed, k + 3) + 1) # 0}
      from == SkipWord(completed, Min(starts) + 3) + 1
  IN  IF starts = {} THEN completed
      ELSE SubSeq(completed, from, IndexOf(completed, fence, from) - 1)

\* generatedCode.replace(filePattern, replacement) with
\* filePattern = /<file path="PATH">[\s\S]*?(?:<\/file>|$)/g
RECURSIVE ReplaceFile(_, _, _, _)
ReplaceFile(code, from, path, replacement) ==
  LET open == FILE_OPEN \o path \o <<"\"", ">">>
      i == IndexOf(code, open, from)
      c == IndexOf(code, FILE_CLOSE, i + Len(open))
      last == IF c = 0 THEN Len(code) ELSE c + Len(FILE_CLOSE) - 1
  IN  IF i = 0 THEN Substring(code, from)
      ELSE SubSeq(code, from, i - 1) \o replacement
           \o ReplaceFile(code, last + 1, path, replacement)

\* the replacement text of line 2046
Replacement(path, cleanContent) ==
  FILE_OPEN \o path \o <<"\"", ">", "\n">> \o cleanContent \o <<"\n">> \o FILE_CLOSE

(***************************************************************************)
(* The provider texts explored.  A document is a sequence of items of the  *)
(* input grammar; Render gives the text the provider streams for it.       *)
(***************************************************************************)
Item(kind, path, body) == [kind |-> kind, path |-> path, body |-> body]

RenderItem(it) ==
  CASE it.kind = "conv" -> it.body
    [] it.kind = "file" ->
         FILE_OPEN \o it.path \o <<"\"", ">">> \o it.body \o FILE_CLOSE
    [] it.kind = "package" -> PACKAGE_OPEN \o it.body \o PACKAGE_CLOSE
    [] it.kind = "packages" -> PACKAGES_OPEN \o it.body \o PACKAGES_CLOSE

Render(doc) == Flatten([k \in 1..Len(doc) |-> RenderItem(doc[k])])

\* Scenario A: a.txt = hello, b.txt = world
DocTwoFiles ==
  << Item("file", <<"a",".","t","x","t">>, <<"h","e","l","l","o">>),
     Item("file", <<"b",".","t","x","t">>, <<"w","o","r","l","d">>) >>

\* conversational text, then two components
DocComponents ==
  << Item("conv", <<>>, <<"H","i"," ">>),
     Item("file", <<"c","o","m","p","o","n","e","n","t","s","/","A",".","j","s","x">>,
          <<" ","a"," ">>),
     Item("file", <<"c","o","m","p","o","n","e","n","t","s","/","B">>,
          <<"b">>) >>

\* x declared by all three sources, y by <packages> only, z by an import only
DocDependencies ==
  << Item("package", <<>>, <<"x">>),
     Item("packages", <<>>, <<"x",",","y">>),
     Item("file", <<"a",".","j","s">>,
          <<"i","m","p","o","r","t"," ","'","x","'","\n",
            "i","m","p","o","r","t"," ","q"," ","f","r","o","m"," ","'","z","/","b","'">>) >>

\* the same <package> directive twice
DocPackageTwice ==
  << Item("package", <<>>, <<"x">>),
     Item("conv", <<>>, <<" ">>),
     Item("package", <<>>, <<"x">>) >>

WellFormedDocs == {DocTwoFiles, DocComponents, DocDependencies, DocPackageTwice}

WellFormedStreams == {Render(d) : d \in WellFormedDocs}

\* Scenario B: the stream ends inside the record of x.txt
TextScenarioB ==
  <<"S","u","r","e",","," ","h","e","r","e"," ","i","s"," ","y","o","u","r"," ",
    "c","o","d","e",":"," ">>
  \o FILE_OPEN \o <<"x",".","t","x","t","\"",">">>

\* two records of a.js, the second one with four unclosed braces
TextSamePath ==
  Render(<< Item("file", <<"a",".","j","s">>, <<"e","x","p","o","r","t"," ","1">>),
            Item("file", <<"a",".","j","s">>, <<"{","{","{","{">>) >>)

\* a closed record, a stray close marker, an unclosed record
TextStrayClose ==
  Render(<< Item("file", <<"a",".","j","s">>, <<"e","x","p","o","r","t"," ","1">>) >>)
  \o FILE_CLOSE
  \o FILE_OPEN \o <<"b",".","j","s","\"",">">> \o <<"e","x","p","o","r","t">>

\* a short closed record without fault, then an unclosed record
TextShortAndUnclosed ==
  Render(<< Item("file", <<"a",".","j","s">>, <<"o","k">>) >>)
  \o FILE_OPEN \o <<"b",".","t","x","t","\"",">">>

\* an unclosed record with open braces, followed by a closed record
TextUnclosedFirst ==
  FILE_OPEN \o <<"a",".","j","s","\"",">">> \o <<"{","{">>
  \o Render(<< Item("file", <<"b",".","j","s">>, <<"e","x","p","o","r","t"," ","1">>) >>)

\* a short closed record and a record left open, both chosen for regeneration
TextTwoTruncated ==
  Render(<< Item("file", <<"a",".","j","s">>, <<"(">>) >>)
  \o FILE_OPEN \o <<"b",".","j","s","\"",">">>

\* two records of a.js, a short closed one and one left open, both chosen for
\* regeneration
TextSamePathTruncated ==
  Render(<< Item("file", <<"a",".","j","s">>, <<"(">>) >>)
  \o FILE_OPEN \o <<"a",".","j","s","\"",">">>

FaultyTexts ==
  {TextScenarioB, TextSamePath, TextStrayClose, TextShortAndUnclosed,
   TextUnclosedFirst, TextTwoTruncated, TextSamePathTruncated}

Streams == {Render(d) : d \in WellFormedDocs} \cup FaultyTexts

\* a request text; the empty text stands for a missing prompt as well (!prompt)
SomePrompt == <<"f","i","x">>

\* the requests explored: every stream in an edit session, the streams that
\* declare dependencies also in a generation session, and a request without
\* prompt (text is what the provider would deliver for the request)
Requests ==
  {[prompt |-> SomePrompt, text |-> t, isEdit |-> TRUE] : t \in Streams}
  \cup {[prompt |-> SomePrompt, text |-> Render(d), isEdit |-> FALSE] :
          d \in {DocPackageTwice, DocDependencies}}
  \cup {[prompt |-> <<>>, text |-> Render(DocTwoFiles), isEdit |-> TRUE]}

\* the streams explored with an observer that may stop reading or cancel
ObservedStreams == {Render(DocTwoFiles), TextTwoTruncated}

\* what a follow-up generation returns: plain text, or a fenced block
RepairContents ==
  { <<"d","o","n","e">>,
    <<BackTick, BackTick, BackTick, "j","s","\n","d","o","n","e","\n",
      BackTick, BackTick, BackTick>> }

\* Scenario A: the chunks <file path="a.txt">hel | lo</file>...world</ | file>
\* and the chunks Hi <f | ile path="components/A.jsx"> a  | </file>...
ChunkPlans ==
  {[text |-> Render(DocTwoFiles), sizes |-> <<22, 35, 5>>],
   [text |-> Render(DocComponents), sizes |-> <<5, 31, 41>>]}

(***************************************************************************)
(* State of one session.                                                   *)
(***************************************************************************)
VARIABLES
  prompt,              \* the request's prompt
  response,            \* status of the HTTP response, 0 before the handler returns
  observer,            \* the reader of stream.readable: "reading", "stalled", "cancelled"
  textStream,          \* the text the provider delivers (result.textStream)
  delivered,           \* number of its characters already delivered
  chunking,            \* how the provider cuts the text: "free", "whole",
                       \* "perChar", "planned"
  chunks,              \* number of chunks delivered so far
  isEdit,              \* the request's isEdit flag
  pc,                  \* position of the background task
  generatedCode, currentFile, currentFilePath, componentCount,
  isInFile, isInTag, conversationalBuffer, tagBuffer,
  packagesToInstall, files, truncationWarnings, truncatedFiles,
  repairIndex,         \* index in truncatedFiles of the loop at line 1984
  repairRequests,      \* the follow-up streamText calls issued so far (paths)
  events,              \* the progress events written so far, in order
  messages,            \* length of global.conversationState.context.messages
  edits,               \* length of global.conversationState.context.edits
  fileCache,           \* global.sandboxState.fileCache: its files and whether
                       \* it holds a manifest
  sessions,            \* the requests in progress on the server, per slot
  requests,            \* number of requests received so far
  linkUsedAt,          \* mediator database: whether usedAt of the link code is set
  userTelegramId,      \* mediator database: telegramId of the link code's user
  linkRequests,        \* the /telegram/link requests, per request
  exec                 \* the /exec request of the mediator

vars ==
  <<prompt, response, observer, textStream, delivered, chunking, chunks, isEdit, pc, generatedCode, currentFile, currentFilePath, componentCount, isInFile,
    isInTag, conversationalBuffer, tagBuffer, packagesToInstall, files,
    truncationWarnings, truncatedFiles, repairIndex, repairRequests, events,
    messages, edits, fileCache, sessions, requests,
    linkUsedAt, userTelegramId, linkRequests, exec>>

\* the state of the mediator server (src/server)
mediatorVars == <<linkUsedAt, userTelegramId, linkRequests, exec>>

\* the /telegram/link requests explored
LinkRequests == {1, 2, 3}

\* a request that has not arrived
NoLinkRequest == [pc |-> "idle", code |-> "", telegramId |-> "", usedAt |-> FALSE,
                  status |-> 0]

NoExec ==
  [pc |-> "idle", mediatorJwt |-> "none", actions |-> {}, action |-> "",
   payload |-> FALSE, encryptedGithubToken |-> FALSE, status |-> 0,
   githubCalls |-> 0, audits |-> 0]

\* a mediator that has received no request: the link code is unused and its
\* user has no Telegram account
FreshMediator ==
  /\ linkUsedAt = FALSE
  /\ userTelegramId = ""
  /\ linkRequests = [r \in LinkRequests |-> NoLinkRequest]
  /\ exec = NoExec

\* the conversation history, and the rest of the state shared by the requests
historyVars == <<messages, edits>>

sessionsVars == <<fileCache, sessions, requests>>

\* the slots for requests in progress
Sessions == {1, 2}

\* lines 114-117: more than MaxMessages messages are cut to the last
\* KeptMessages
MaxMessages == 20

KeptMessages == 15

\* lines 121-123: more than MaxEdits edit records are cut to the last KeptEdits
MaxEdits == 10

KeptEdits == 8

\* messages.push(userMessage) and the cut of lines 111-118, on the length
PushMessage(n) == IF n + 1 > MaxMessages THEN KeptMessages ELSE n + 1

\* the cut of lines 121-123, on the length
TrimEdits(n) == IF n > MaxEdits THEN KeptEdits ELSE n

\* no sandboxState.fileCache yet
NoCache == [files |-> {}, manifest |-> FALSE]

\* a slot without request
IdleSession ==
  [pc |-> "idle", isEdit |-> FALSE, sandbox |-> FALSE, editContext |-> FALSE,
   backendFiles |-> {}]

\* a server that has served no request: no conversation state, no file cache.
\* Without manifest and without sandbox the request of the single-session
\* specification gets no edit context (line 160), so its task reads nothing
\* from the cache and lines 2082-2105 record no edit
FreshServer ==
  /\ messages = 0
  /\ edits = 0
  /\ fileCache = NoCache
  /\ sessions = [s \in Sessions |-> IdleSession]
  /\ requests = 0

inputVars == <<prompt, textStream, chunking, isEdit>>

\* appConfig.codeApplication.enableTruncationRecovery (src has no config file;
\* the specification describes the recovery as always performed)
enableTruncationRecovery == TRUE

\* the chunk sizes of a planned chunking of the text
PlannedSizes(text) == (CHOOSE p \in ChunkPlans : p.text = text).sizes

\* tagBuffer keeps the text from 50 characters before the last directive on
TagLookBack == 50

Init ==
  /\ \E r \in Requests :
       prompt = r.prompt /\ textStream = r.text /\ isEdit = r.isEdit
  /\ response = 0
  /\ observer = "reading"
  /\ chunking \in {"free", "whole", "perChar", "planned"}
  /\ chunking = "free" => textStream \in WellFormedStreams
  /\ chunking = "whole" => textStream \in FaultyTexts
  /\ chunking = "planned" => \E p \in ChunkPlans : p.text = textStream
  /\ delivered = 0
  /\ chunks = 0
  /\ pc = "received"
  /\ generatedCode = <<>>
  /\ currentFile = <<>>
  /\ currentFilePath = <<>>
  /\ componentCount = 0
  /\ isInFile = FALSE
  /\ isInTag = FALSE
  /\ conversationalBuffer = <<>>
  /\ tagBuffer = <<>>
  /\ packagesToInstall = <<>>
  /\ files = <<>>
  /\ truncationWarnings = <<>>
  /\ truncatedFiles = <<>>
  /\ repairIndex = 0
  /\ repairRequests = <<>>
  /\ events = <<>>
  /\ FreshServer
  /\ FreshMediator

\* the state of the background task
taskVars ==
  <<delivered, chunks, generatedCode, currentFile, currentFilePath,
    componentCount, isInFile, isInTag, conversationalBuffer, tagBuffer,
    packagesToInstall, files, truncationWarnings, truncatedFiles, repairIndex,
    repairRequests, events>>

\* await writer.write(...) of sendProgress (lines 146-149) returns once the
\* reader of stream.readable takes the event: the TransformStream of line 142
\* is built with the default strategies and queues nothing
CanSend == observer = "reading"

\* a handler that starts the session whatever the prompt (a mutant of Post)
PostUnchecked ==
  /\ pc = "received"
  /\ messages' = PushMessage(messages)
  /\ edits' = TrimEdits(edits)
  /\ response' = 200
  /\ pc' = "started"
  /\ UNCHANGED <<mediatorVars, sessionsVars, inputVars, observer, taskVars>>

\* the request handler (lines 75-149, 2131-2138): a request without prompt is
\* answered with status 400; otherwise the background task is started and
\* the event stream returned
Post ==
  /\ pc = "received"
  /\ messages' = PushMessage(messages)
  /\ edits' = TrimEdits(edits)
  /\ IF prompt = <<>>
     THEN response' = 400 /\ pc' = "rejected"
     ELSE response' = 200 /\ pc' = "started"
  /\ UNCHANGED <<mediatorVars, sessionsVars, inputVars, observer, taskVars>>

\* the background task up to the chunk loop (lines 152-1672): the `status`
\* events of lines 155 and 1560
Initialize ==
  /\ pc = "started"
  /\ CanSend
  /\ events' = events \o <<Event("status"), Event("status")>>
  /\ pc' = "streaming"
  /\ UNCHANGED <<mediatorVars, historyVars, sessionsVars, inputVars,
                 response, observer,
                 delivered, chunks,
                 generatedCode, currentFile, currentFilePath, componentCount,
                 isInFile, isInTag, conversationalBuffer, tagBuffer,
                 packagesToInstall, files, truncationWarnings, truncatedFiles,
                 repairIndex, repairRequests>>

\* the reader of stream.readable (line 2132) stops reading while the task is
\* starting or streaming
ObserverStalls ==
  /\ textStream \in ObservedStreams
  /\ pc \in {"started", "streaming"}
  /\ observer = "reading"
  /\ observer' = "stalled"
  /\ UNCHANGED <<mediatorVars, historyVars, sessionsVars, inputVars,
                 response, pc, taskVars>>

\* the reader of stream.readable (line 2132) cancels the stream, as on a
\* disconnect of the caller, while the task is starting or streaming
ObserverCancels ==
  /\ textStream \in ObservedStreams
  /\ pc \in {"started", "streaming"}
  /\ observer = "reading"
  /\ observer' = "cancelled"
  /\ UNCHANGED <<mediatorVars, historyVars, sessionsVars, inputVars,
                 response, pc, taskVars>>

\* a chunk appended as delivered, whatever its blanks (a mutant of Accumulate)
AccumulateTrimmed(code, text) == code \o Trim(text)

\* generatedCode += text (line 1676)
Accumulate(code, text) == code \o text

\* an iteration of the chunk loop that sends the buffered text and keeps it
\* (a mutant of Ingest)
IngestKeepsBuffer(n) ==
  /\ pc = "streaming"
  /\ CanSend
  /\ n \in 1..(Len(textStream) - delivered)
  /\ chunking = "perChar" => n = 1
  /\ chunking = "whole" => n = Len(textStream)
  /\ chunking = "planned" => n = PlannedSizes(textStream)[chunks + 1]
  /\ (chunking = "free" /\ chunks = MaxChunks - 1) => n = Len(textStream) - delivered
  /\ LET text == SubSeq(textStream, delivered + 1, delivered + n)
         searchText == tagBuffer \o text
         hasOpenTag == HasOpenTag(text)
         hasCloseTag == HasCloseTag(text)
         flush == hasOpenTag /\ Trim(conversationalBuffer) # <<>> /\ ~isInTag
         inTag == IF hasCloseTag THEN FALSE
                  ELSE IF hasOpenTag THEN TRUE ELSE isInTag
         buffer == conversationalBuffer
         matches == IF isEdit THEN PackageMatches(searchText, 1) ELSE <<>>
         names == SelectSeq([k \in 1..Len(matches) |-> Trim(matches[k].name)],
                            LAMBDA x : x # <<>>)
         pkgs == AddPackages(packagesToInstall, names)
         lastIndex == IF matches = <<>> THEN 0 ELSE matches[Len(matches)].last
         pathMatch == PathMatch(text, 1)
         opened == Includes(text, FILE_OPEN) /\ pathMatch.found
         path == IF opened THEN pathMatch.path ELSE currentFilePath
         file == IF opened THEN text ELSE currentFile \o text
         closed == (opened \/ isInFile) /\ Includes(file, FILE_CLOSE)
         isComponent ==
           Includes(path, <<"c","o","m","p","o","n","e","n","t","s","/">>)
         count == IF closed /\ isComponent THEN componentCount + 1
                  ELSE componentCount
     IN  /\ generatedCode' = Accumulate(generatedCode, text)
         /\ isInTag' = inTag
         /\ conversationalBuffer' =
              IF ~inTag /\ ~hasOpenTag THEN buffer \o text ELSE buffer
         /\ packagesToInstall' = pkgs
         /\ tagBuffer' =
              Substring(searchText, Max({0, lastIndex - TagLookBack}) + 1)
         /\ isInFile' = IF closed THEN FALSE ELSE (opened \/ isInFile)
         /\ currentFile' = IF closed THEN <<>> ELSE file
         /\ currentFilePath' = IF closed THEN <<>> ELSE path
         /\ componentCount' = count
         /\ events' = events
              \o (IF flush THEN <<ConversationEvent(Trim(conversationalBuffer))>>
                  ELSE <<>>)
              \o <<StreamEvent(text)>>
              \o PackageEvents(packagesToInstall, pkgs)
              \o (IF closed THEN FileProgress(path, count) ELSE <<>>)
  /\ delivered' = delivered + n
  /\ chunks' = chunks + 1
  /\ UNCHANGED <<mediatorVars, historyVars, sessionsVars, inputVars,
                 response, observer,
                 pc, files, truncationWarnings, truncatedFiles,
                 repairIndex, repairRequests>>

\* an iteration of the chunk loop that looks for <package> directives in the
\* chunk alone (a mutant of Ingest)
IngestSearchesChunk(n) ==
  /\ pc = "streaming"
  /\ CanSend
  /\ n \in 1..(Len(textStream) - delivered)
  /\ chunking = "perChar" => n = 1
  /\ chunking = "whole" => n = Len(textStream)
  /\ chunking = "planned" => n = PlannedSizes(textStream)[chunks + 1]
  /\ (chunking = "free" /\ chunks = MaxChunks - 1) => n = Len(textStream) - delivered
  /\ LET text == SubSeq(textStream, delivered + 1, delivered + n)
         searchText == text
         hasOpenTag == HasOpenTag(text)
         hasCloseTag == HasCloseTag(text)
         flush == hasOpenTag /\ Trim(conversationalBuffer) # <<>> /\ ~isInTag
         inTag == IF hasCloseTag THEN FALSE
                  ELSE IF hasOpenTag THEN TRUE ELSE isInTag
         buffer == IF flush THEN <<>> ELSE conversationalBuffer
         matches == IF isEdit THEN PackageMatches(searchText, 1) ELSE <<>>
         names == SelectSeq([k \in 1..Len(matches) |-> Trim(matches[k].name)],
                            LAMBDA x : x # <<>>)
         pkgs == AddPackages(packagesToInstall, names)
         lastIndex == IF matches = <<>> THEN 0 ELSE matches[Len(matches)].last
         pathMatch == PathMatch(text, 1)
         opened == Includes(text, FILE_OPEN) /\ pathMatch.found
         path == IF opened THEN pathMatch.path ELSE currentFilePath
         file == IF opened THEN text ELSE currentFile \o text
         closed == (opened \/ isInFile) /\ Includes(file, FILE_CLOSE)
         isComponent ==
           Includes(path, <<"c","o","m","p","o","n","e","n","t","s","/">>)
         count == IF closed /\ isComponent THEN componentCount + 1
                  ELSE componentCount
     IN  /\ generatedCode' = Accumulate(generatedCode, text)
         /\ isInTag' = inTag
         /\ conversationalBuffer' =
              IF ~inTag /\ ~hasOpenTag THEN buffer \o text ELSE buffer
         /\ packagesToInstall' = pkgs
         /\ tagBuffer' =
              Substring(searchText, Max({0, lastIndex - TagLookBack}) + 1)
         /\ isInFile' = IF closed THEN FALSE ELSE (opened \/ isInFile)
         /\ currentFile' = IF closed THEN <<>> ELSE file
         /\ currentFilePath' = IF closed THEN <<>> ELSE path
         /\ componentCount' = count
         /\ events' = events
              \o (IF flush THEN <<ConversationEvent(Trim(conversationalBuffer))>>
                  ELSE <<>>)
              \o <<StreamEvent(text)>>
              \o PackageEvents(packagesToInstall, pkgs)
              \o (IF closed THEN FileProgress(path, count) ELSE <<>>)
  /\ delivered' = delivered + n
  /\ chunks' = chunks + 1
  /\ UNCHANGED <<mediatorVars, historyVars, sessionsVars, inputVars,
                 response, observer,
                 pc, files, truncationWarnings, truncatedFiles,
                 repairIndex, repairRequests>>

(***************************************************************************)
(* One iteration of the chunk loop (lines 1674-1776) for a chunk of n      *)
(* characters.                                                             *)
(***************************************************************************)
Ingest(n) ==
  /\ pc = "streaming"
  /\ CanSend
  /\ n \in 1..(Len(textStream) - delivered)
  /\ chunking = "perChar" => n = 1
  /\ chunking = "whole" => n = Len(textStream)
  /\ chunking = "planned" => n = PlannedSizes(textStream)[chunks + 1]
  /\ (chunking = "free" /\ chunks = MaxChunks - 1) => n = Len(textStream) - delivered
  /\ LET text == SubSeq(textStream, delivered + 1, delivered + n)
         searchText == tagBuffer \o text
         hasOpenTag == HasOpenTag(text)
         hasCloseTag == HasCloseTag(text)
         flush == hasOpenTag /\ Trim(conversationalBuffer) # <<>> /\ ~isInTag
         inTag == IF hasCloseTag THEN FALSE
                  ELSE IF hasOpenTag THEN TRUE ELSE isInTag
         buffer == IF flush THEN <<>> ELSE conversationalBuffer
         matches == IF isEdit THEN PackageMatches(searchText, 1) ELSE <<>>
         names == SelectSeq([k \in 1..Len(matches) |-> Trim(matches[k].name)],
                            LAMBDA x : x # <<>>)
         pkgs == AddPackages(packagesToInstall, names)
         lastIndex == IF matches = <<>> THEN 0 ELSE matches[Len(matches)].last
         pathMatch == PathMatch(text, 1)
         opened == Includes(text, FILE_OPEN) /\ pathMatch.found
         path == IF opened THEN pathMatch.path ELSE currentFilePath
         file == IF opened THEN text ELSE currentFile \o text
         closed == (opened \/ isInFile) /\ Includes(file, FILE_CLOSE)
         isComponent ==
           Includes(path, <<"c","o","m","p","o","n","e","n","t","s","/">>)
         count == IF closed /\ isComponent THEN componentCount + 1
                  ELSE componentCount
     IN  /\ generatedCode' = Accumulate(generatedCode, text)
         /\ isInTag' = inTag
         /\ conversationalBuffer' =
              IF ~inTag /\ ~hasOpenTag THEN buffer \o text ELSE buffer
         /\ packagesToInstall' = pkgs
         /\ tagBuffer' =
              Substring(searchText, Max({0, lastIndex - TagLookBack}) + 1)
         /\ isInFile' = IF closed THEN FALSE ELSE (opened \/ isInFile)
         /\ currentFile' = IF closed THEN <<>> ELSE file
         /\ currentFilePath' = IF closed THEN <<>> ELSE path
         /\ componentCount' = count
         /\ events' = events
              \o (IF flush THEN <<ConversationEvent(Trim(conversationalBuffer))>>
                  ELSE <<>>)
              \o <<StreamEvent(text)>>
              \o PackageEvents(packagesToInstall, pkgs)
              \o (IF closed THEN FileProgress(path, count) ELSE <<>>)
  /\ delivered' = delivered + n
  /\ chunks' = chunks + 1
  /\ UNCHANGED <<mediatorVars, historyVars, sessionsVars, inputVars,
                 response, observer,
                 pc, files, truncationWarnings, truncatedFiles,
                 repairIndex, repairRequests>>

\* progress events of the file records with the imports collected in every
\* session, edit or not (a mutant of ExtractionEvents)
RECURSIVE ExtractionEventsAnyMode(_, _, _)
ExtractionEventsAnyMode(ms, pkgs, count) ==
  IF ms = <<>> THEN <<>>
  ELSE LET m == Head(ms)
           after == AddPackages(pkgs, extractPackagesFromCode(Trim(m.content)))
       IN  PackageEvents(pkgs, after) \o FileProgress(m.path, count)
           \o ExtractionEventsAnyMode(Tail(ms), after, count)

\* the file records of the output and their progress events (lines 1839-1881)
RECURSIVE ExtractionEvents(_, _, _)
ExtractionEvents(ms, pkgs, count) ==
  IF ms = <<>> THEN <<>>
  ELSE LET m == Head(ms)
           after == IF isEdit
                    THEN AddPackages(pkgs, extractPackagesFromCode(Trim(m.content)))
                    ELSE pkgs
       IN  PackageEvents(pkgs, after) \o FileProgress(m.path, count)
           \o ExtractionEvents(Tail(ms), after, count)

RECURSIVE ExtractionPackages(_, _)
ExtractionPackages(ms, pkgs) ==
  IF ms = <<>> THEN pkgs
  ELSE ExtractionPackages(Tail(ms),
         AddPackages(pkgs, extractPackagesFromCode(Trim(Head(ms).content))))

\* the stream has ended: lines 1778-1885
EndOfStream ==
  /\ pc = "streaming"
  /\ delivered = Len(textStream)
  /\ LET rest == Trim(conversationalBuffer)
         pkgs == IF isEdit
                 THEN AddPackages(packagesToInstall, PackagesNames(generatedCode))
                 ELSE packagesToInstall
         ms == FileMatches(generatedCode, 1, FALSE)
     IN  /\ files' = [k \in 1..Len(ms) |->
                        [path |-> ms[k].path, content |-> Trim(ms[k].content)]]
         /\ packagesToInstall' =
              IF isEdit THEN ExtractionPackages(ms, pkgs) ELSE pkgs
         /\ events' = events
              \o (IF rest # <<>> THEN <<ConversationEvent(rest)>> ELSE <<>>)
              \o PackageEvents(packagesToInstall, pkgs)
              \o ExtractionEvents(ms, pkgs, componentCount)
  /\ events' # events => CanSend
  /\ pc' = "ended"
  /\ UNCHANGED <<mediatorVars, historyVars, sessionsVars, inputVars,
                 response, observer,
                 delivered, chunks, generatedCode, currentFile,
                 currentFilePath, componentCount, isInFile, isInTag,
                 conversationalBuffer, tagBuffer, truncationWarnings,
                 truncatedFiles, repairIndex, repairRequests>>

\* the provider's stream throws before its text is complete (catch and
\* finally, lines 2109-2128); the write of the catch rejects when the stream
\* was cancelled
StreamFail(toolValidation) ==
  /\ pc = "streaming"
  /\ delivered < Len(textStream)
  /\ observer # "stalled"
  /\ events' = IF CanSend
               THEN Append(events,
                      IF toolValidation THEN Event("warning") ELSE Event("error"))
               ELSE events
  /\ pc' = "closed"
  /\ UNCHANGED <<mediatorVars, historyVars, sessionsVars, inputVars,
                 response, observer,
                 delivered, chunks, generatedCode, currentFile,
                 currentFilePath, componentCount, isInFile, isInTag,
                 conversationalBuffer, tagBuffer, packagesToInstall, files,
                 truncationWarnings, truncatedFiles, repairIndex, repairRequests>>

\* lines 1887-1928
DetectFaults ==
  /\ pc = "ended"
  /\ truncationWarnings' = DetectTruncation(generatedCode)
  /\ pc' = "detected"
  /\ UNCHANGED <<mediatorVars, historyVars, sessionsVars, inputVars,
                 response, observer,
                 delivered, chunks, generatedCode, currentFile,
                 currentFilePath, componentCount, isInFile, isInTag,
                 conversationalBuffer, tagBuffer, packagesToInstall, files,
                 truncatedFiles, repairIndex, repairRequests, events>>

\* lines 1931-1981: the guard of the recovery and the files to regenerate
StartRecovery ==
  /\ pc = "detected"
  /\ (truncationWarnings # <<>> /\ enableTruncationRecovery) => CanSend
  /\ IF truncationWarnings # <<>> /\ enableTruncationRecovery
     THEN /\ events' = Append(events,
                 [Event("warning") EXCEPT !.warnings = truncationWarnings])
          /\ truncatedFiles' = SelectTruncated(generatedCode)
          /\ pc' = IF SelectTruncated(generatedCode) # <<>>
                   THEN "repairing" ELSE "finishing"
          /\ repairIndex' = 1
     ELSE /\ pc' = "finishing"
          /\ UNCHANGED <<events, truncatedFiles, repairIndex>>
  /\ UNCHANGED <<mediatorVars, historyVars, sessionsVars, inputVars,
                 response, observer,
                 delivered, chunks, generatedCode, currentFile,
                 currentFilePath, componentCount, isInFile, isInTag,
                 conversationalBuffer, tagBuffer, packagesToInstall, files,
                 truncationWarnings, repairRequests>>

\* a follow-up generation requested while the one before it is still awaited
\* (a mutant of RepairRequest)
RepairRequestConcurrent ==
  /\ pc \in {"repairing", "awaiting"}
  /\ CanSend
  /\ Len(repairRequests) < Len(truncatedFiles)
  /\ events' = Append(events,
                 [Event("info") EXCEPT
                    !.path = truncatedFiles[Len(repairRequests) + 1]])
  /\ repairRequests' = Append(repairRequests,
                              truncatedFiles[Len(repairRequests) + 1])
  /\ pc' = "awaiting"
  /\ UNCHANGED <<mediatorVars, historyVars, sessionsVars, inputVars,
                 response, observer,
                 delivered, chunks, generatedCode, currentFile,
                 currentFilePath, componentCount, isInFile, isInTag,
                 conversationalBuffer, tagBuffer, packagesToInstall, files,
                 truncationWarnings, truncatedFiles, repairIndex>>

\* lines 1984-2021: the follow-up generation for the next file is requested
RepairRequest ==
  /\ pc = "repairing"
  /\ CanSend
  /\ repairIndex <= Len(truncatedFiles)
  /\ events' = Append(events,
                 [Event("info") EXCEPT !.path = truncatedFiles[repairIndex]])
  /\ repairRequests' = Append(repairRequests, truncatedFiles[repairIndex])
  /\ pc' = "awaiting"
  /\ UNCHANGED <<mediatorVars, historyVars, sessionsVars, inputVars,
                 response, observer,
                 delivered, chunks, generatedCode, currentFile,
                 currentFilePath, componentCount, isInFile, isInTag,
                 conversationalBuffer, tagBuffer, packagesToInstall, files,
                 truncationWarnings, truncatedFiles, repairIndex>>

\* lines 2023-2049: the follow-up generation returned completedContent
RepairDone(completedContent) ==
  /\ pc = "awaiting"
  /\ generatedCode' =
       ReplaceFile(generatedCode, 1, truncatedFiles[repairIndex],
                   Replacement(truncatedFiles[repairIndex],
                               CleanContent(completedContent)))
  /\ repairIndex' = repairIndex + 1
  /\ pc' = "repairing"
  /\ UNCHANGED <<mediatorVars, historyVars, sessionsVars, inputVars,
                 response, observer,
                 delivered, chunks, currentFile,
                 currentFilePath, componentCount, isInFile, isInTag,
                 conversationalBuffer, tagBuffer, packagesToInstall, files,
                 truncationWarnings, truncatedFiles, repairRequests, events>>

\* a failed follow-up generation that ends the recovery loop (a mutant of
\* RepairFailed)
RepairFailedSkipsRest ==
  /\ pc = "awaiting"
  /\ CanSend
  /\ events' = Append(events,
                 [Event("warning") EXCEPT !.path = truncatedFiles[repairIndex]])
  /\ repairIndex' = Len(truncatedFiles) + 1
  /\ pc' = "repairing"
  /\ UNCHANGED <<mediatorVars, historyVars, sessionsVars, inputVars,
                 response, observer,
                 delivered, chunks, generatedCode,
                 currentFile, currentFilePath, componentCount, isInFile, isInTag,
                 conversationalBuffer, tagBuffer, packagesToInstall, files,
                 truncationWarnings, truncatedFiles, repairRequests>>

\* lines 2051-2057: the follow-up generation failed
RepairFailed ==
  /\ pc = "awaiting"
  /\ CanSend
  /\ events' = Append(events,
                 [Event("warning") EXCEPT !.path = truncatedFiles[repairIndex]])
  /\ repairIndex' = repairIndex + 1
  /\ pc' = "repairing"
  /\ UNCHANGED <<mediatorVars, historyVars, sessionsVars, inputVars,
                 response, observer,
                 delivered, chunks, generatedCode, currentFile,
                 currentFilePath, componentCount, isInFile, isInTag,
                 conversationalBuffer, tagBuffer, packagesToInstall, files,
                 truncationWarnings, truncatedFiles, repairRequests>>

\* lines 2060-2065: every file of truncatedFiles has been attempted
RecoveryEnd ==
  /\ pc = "repairing"
  /\ CanSend
  /\ repairIndex > Len(truncatedFiles)
  /\ truncationWarnings' = <<>>
  /\ events' = Append(events, Event("info"))
  /\ pc' = "finishing"
  /\ UNCHANGED <<mediatorVars, historyVars, sessionsVars, inputVars,
                 response, observer,
                 delivered, chunks, generatedCode, currentFile,
                 currentFilePath, componentCount, isInFile, isInTag,
                 conversationalBuffer, tagBuffer, packagesToInstall, files,
                 truncatedFiles, repairIndex, repairRequests>>

\* a completion that does not wait for the outstanding repair request (a
\* mutant of Complete)
CompleteWithoutWaiting ==
  /\ pc \in {"finishing", "awaiting"}
  /\ CanSend
  /\ events' = Append(events,
       [Event("complete") EXCEPT !.text = generatedCode,
                                 !.files = Len(files),
                                 !.components = componentCount,
                                 !.packagesToInstall = packagesToInstall,
                                 !.warnings = truncationWarnings])
  /\ pc' = "closed"
  /\ UNCHANGED <<mediatorVars, historyVars, sessionsVars, inputVars,
                 response, observer,
                 delivered, chunks, generatedCode,
                 currentFile, currentFilePath, componentCount, isInFile, isInTag,
                 conversationalBuffer, tagBuffer, packagesToInstall, files,
                 truncationWarnings, truncatedFiles, repairIndex, repairRequests>>

\* a completion that carries the output rebuilt from the extracted records (a
\* mutant of Complete)
CompleteWithRecords ==
  /\ pc = "finishing"
  /\ CanSend
  /\ events' = Append(events,
       [Event("complete") EXCEPT
          !.text = Flatten([k \in 1..Len(files) |->
                     FILE_OPEN \o files[k].path \o <<"\"", ">">>
                     \o files[k].content \o FILE_CLOSE]),
          !.files = Len(files),
          !.components = componentCount,
          !.packagesToInstall = packagesToInstall,
          !.warnings = truncationWarnings])
  /\ pc' = "closed"
  /\ UNCHANGED <<mediatorVars, historyVars, sessionsVars, inputVars,
                 response, observer,
                 delivered, chunks, generatedCode, currentFile,
                 currentFilePath, componentCount, isInFile, isInTag,
                 conversationalBuffer, tagBuffer, packagesToInstall, files,
                 truncationWarnings, truncatedFiles, repairIndex,
                 repairRequests>>

\* lines 2069-2079 and the finally of line 2126
Complete ==
  /\ pc = "finishing"
  /\ CanSend
  /\ events' = Append(events,
       [Event("complete") EXCEPT !.text = generatedCode,
                                 !.files = Len(files),
                                 !.components = componentCount,
                                 !.packagesToInstall = packagesToInstall,
                                 !.warnings = truncationWarnings])
  /\ pc' = "closed"
  /\ UNCHANGED <<mediatorVars, historyVars, sessionsVars, inputVars,
                 response, observer,
                 delivered, chunks, generatedCode, currentFile,
                 currentFilePath, componentCount, isInFile, isInTag,
                 conversationalBuffer, tagBuffer, packagesToInstall, files,
                 truncationWarnings, truncatedFiles, repairIndex, repairRequests>>

\* the events the pass after the stream would write (lines 1780-1881)
EndOfStreamWrites ==
  \/ Trim(conversationalBuffer) # <<>>
  \/ isEdit /\ AddPackages(packagesToInstall, PackagesNames(generatedCode))
               # packagesToInstall
  \/ ExtractionEvents(FileMatches(generatedCode, 1, FALSE), packagesToInstall,
                      componentCount) # <<>>

\* the next step of the task writes an event
NextStepWrites ==
  CASE pc = "started" -> TRUE
    [] pc = "streaming" ->
         IF delivered < Len(textStream) THEN TRUE ELSE EndOfStreamWrites
    [] pc = "detected" -> truncationWarnings # <<>> /\ enableTruncationRecovery
    [] pc \in {"repairing", "finishing"} -> TRUE
    [] OTHER -> FALSE

\* a write to the cancelled stream rejects: the exception reaches the catch
\* of line 2109, whose own write rejects as well, and the task ends in the
\* finally of line 2126 with no event written
WriteRejected ==
  /\ observer = "cancelled"
  /\ NextStepWrites
  /\ pc' = "closed"
  /\ UNCHANGED <<mediatorVars, historyVars, sessionsVars, inputVars,
                 response, observer,
                 taskVars>>

Next ==
  \/ Post
  \/ Initialize
  \/ ObserverStalls
  \/ ObserverCancels
  \/ WriteRejected
  \/ \E n \in 1..(Len(textStream) - delivered) : Ingest(n)
  \/ EndOfStream
  \/ \E toolValidation \in BOOLEAN : StreamFail(toolValidation)
  \/ DetectFaults
  \/ StartRecovery
  \/ RepairRequest
  \/ \E completedContent \in RepairContents : RepairDone(completedContent)
  \/ RepairFailed
  \/ RecoveryEnd
  \/ Complete

Spec == Init /\ [][Next]_vars

(***************************************************************************)
(* extractPackagesFromCode (lines 1812-1837) on its own: one file record   *)
(* of an edit session whose content is an import statement, and the step   *)
(* of lines 1846-1852 that collects its packages.                          *)
(***************************************************************************)
\* the import paths tried: the host modules and their sub-paths, relative and
\* absolute paths, the internal alias, scoped and plain packages
ImportPathsTried ==
  { <<"r","e","a","c","t">>,
    <<"r","e","a","c","t","-","d","o","m">>,
    <<"r","e","a","c","t","-","d","o","m","/","c","l","i","e","n","t">>,
    <<"r","e","a","c","t","/","j","s","x","-","r","u","n","t","i","m","e">>,
    <<".","/","a">>,
    <<".",".","/","b">>,
    <<"/","a","b","s">>,
    <<"@","/","l","i","b","/","x">>,
    <<"@","s","c","o","p","e","/","p","k","g","/","s","u","b">>,
    <<"@","s","c","o","p","e","/","p","k","g">>,
    <<"l","o","d","a","s","h">>,
    <<"l","o","d","a","s","h","/","f","p">>,
    <<"x">> }

\* the forms of import statement that importRegex (line 1816) matches
ImportStatement(form, path) ==
  CASE form = 1 -> <<"i","m","p","o","r","t"," ","'">> \o path \o <<"'">>
    [] form = 2 -> <<"i","m","p","o","r","t"," ","x"," ","f","r","o","m"," ","'">> \o path \o <<"'">>
    [] form = 3 -> <<"i","m","p","o","r","t"," ","{","a","}"," ","f","r","o","m"," ","\"">> \o path \o <<"\"">>
    [] form = 4 -> <<"i","m","p","o","r","t"," ","*"," ","a","s"," ","x"," ","f","r","o","m"," ","'">> \o path \o <<"'">>
    [] form = 5 -> <<"i","m","p","o","r","t"," ","a",","," ","{","b","}"," ","f","r","o","m"," ","'">> \o path \o <<"'">>

\* the file contents given to extractPackagesFromCode
ImportSources ==
  {ImportStatement(form, path) : form \in 1..5, path \in ImportPathsTried}

InitImports ==
  /\ prompt = SomePrompt
  /\ response = 200
  /\ observer = "reading"
  /\ \E src \in ImportSources :
       /\ textStream = FILE_OPEN \o <<"a",".","j","s","\"",">">> \o src \o FILE_CLOSE
       /\ files = <<[path |-> <<"a",".","j","s">>, content |-> src]>>
  /\ generatedCode = textStream
  /\ delivered = Len(textStream)
  /\ chunking = "whole"
  /\ chunks = 1
  /\ isEdit = TRUE
  /\ pc = "extracting"
  /\ currentFile = <<>>
  /\ currentFilePath = <<>>
  /\ componentCount = 0
  /\ isInFile = FALSE
  /\ isInTag = FALSE
  /\ conversationalBuffer = <<>>
  /\ tagBuffer = <<>>
  /\ packagesToInstall = <<>>
  /\ truncationWarnings = <<>>
  /\ truncatedFiles = <<>>
  /\ repairIndex = 0
  /\ repairRequests = <<>>
  /\ events = <<>>
  /\ FreshServer
  /\ FreshMediator

\* lines 1846-1860: the packages of the file's imports are collected and
\* reported
ExtractImports ==
  /\ pc = "extracting"
  /\ packagesToInstall' =
       AddPackages(packagesToInstall, extractPackagesFromCode(files[1].content))
  /\ events' = events \o PackageEvents(packagesToInstall, packagesToInstall')
  /\ pc' = "extracted"
  /\ UNCHANGED <<mediatorVars, historyVars, sessionsVars, inputVars,
                 response, observer,
                 delivered, chunks,
                 generatedCode, currentFile, currentFilePath, componentCount,
                 isInFile, isInTag, conversationalBuffer, tagBuffer, files,
                 truncationWarnings, truncatedFiles, repairIndex,
                 repairRequests>>

NextImports == ExtractImports

SpecImports == InitImports /\ [][NextImports]_vars

(***************************************************************************)
(* Several requests on one server.  Each slot of Sessions runs the handler *)
(* from the start of POST to the end of its background task, cut at the    *)
(* awaits where another request can run; of the handler only the accesses  *)
(* to the state shared through `global` are kept.                          *)
(***************************************************************************)
\* the requests served before the exploration stops
MaxRequests == 22

\* what /api/get-sandbox-files answers (lines 1035-1042): the files of the
\* sandbox, with or without a manifest
FetchResults ==
  [files : {{"App.jsx"}, {"App.jsx", "Hero.jsx"}}, manifest : BOOLEAN]

\* the variables of the single-session specification
oneSessionVars == <<inputVars, response, observer, pc, taskVars>>

InitSessions ==
  /\ prompt = SomePrompt
  /\ textStream = <<>>
  /\ chunking = "whole"
  /\ isEdit = FALSE
  /\ response = 0
  /\ observer = "reading"
  /\ pc = "sessions"
  /\ delivered = 0
  /\ chunks = 0
  /\ generatedCode = <<>>
  /\ currentFile = <<>>
  /\ currentFilePath = <<>>
  /\ componentCount = 0
  /\ isInFile = FALSE
  /\ isInTag = FALSE
  /\ conversationalBuffer = <<>>
  /\ tagBuffer = <<>>
  /\ packagesToInstall = <<>>
  /\ files = <<>>
  /\ truncationWarnings = <<>>
  /\ truncatedFiles = <<>>
  /\ repairIndex = 0
  /\ repairRequests = <<>>
  /\ events = <<>>
  /\ FreshServer
  /\ FreshMediator

\* lines 75-149 for a request with a prompt: the history is extended and cut,
\* and the background task is started
SessionPost(s, edit, sandbox) ==
  /\ sessions[s].pc = "idle"
  /\ requests < MaxRequests
  /\ requests' = requests + 1
  /\ messages' = PushMessage(messages)
  /\ edits' = TrimEdits(edits)
  /\ sessions' = [sessions EXCEPT ![s] =
                    [IdleSession EXCEPT !.pc = "started", !.isEdit = edit,
                                        !.sandbox = sandbox]]
  /\ UNCHANGED <<fileCache, oneSessionVars, mediatorVars>>

\* lines 75-138 for a request without prompt: the message is pushed before
\* the check of line 133 answers 400
SessionRejected(s) ==
  /\ sessions[s].pc = "idle"
  /\ requests < MaxRequests
  /\ requests' = requests + 1
  /\ messages' = PushMessage(messages)
  /\ edits' = TrimEdits(edits)
  /\ UNCHANGED <<fileCache, sessions, oneSessionVars, mediatorVars>>

\* lines 158-293 and 1021-1031: the task reads the manifest and the files of
\* the cache; found says whether the search (or its fallback) gave an edit
\* context; without cached files an edit request with a sandbox goes on to
\* fetch them
SessionContext(s, found) ==
  /\ sessions[s].pc = "started"
  /\ sessions' = [sessions EXCEPT ![s] =
       [@ EXCEPT !.editContext = @ \/ (sessions[s].isEdit /\ fileCache.manifest
                                       /\ found),
                 !.backendFiles = fileCache.files,
                 !.pc = IF fileCache.files = {} /\ sessions[s].isEdit
                           /\ sessions[s].sandbox
                        THEN "fetching" ELSE "generating"]]
  /\ UNCHANGED <<historyVars, fileCache, requests, oneSessionVars, mediatorVars>>

\* lines 1040-1105: the fetched files are stored in the cache, the manifest
\* too when there is one, in which case analysed says whether the intent
\* analysis gave an edit context
SessionFetched(s, data, analysed) ==
  /\ sessions[s].pc = "fetching"
  /\ fileCache' = [files |-> fileCache.files \cup data.files,
                   manifest |-> fileCache.manifest \/ data.manifest]
  /\ sessions' = [sessions EXCEPT ![s] =
       [@ EXCEPT !.editContext = @ \/ (data.manifest /\ analysed),
                 !.backendFiles = fileCache.files \cup data.files,
                 !.pc = "generating"]]
  /\ UNCHANGED <<historyVars, requests, oneSessionVars, mediatorVars>>

\* lines 1106-1108: the fetch failed
SessionFetchFailed(s) ==
  /\ sessions[s].pc = "fetching"
  /\ sessions' = [sessions EXCEPT ![s].pc = "generating"]
  /\ UNCHANGED <<historyVars, fileCache, requests, oneSessionVars, mediatorVars>>

\* lines 2069-2107: the task completes; an edit with an edit context is
\* recorded in the history
SessionComplete(s) ==
  /\ sessions[s].pc = "generating"
  /\ edits' = IF sessions[s].isEdit /\ sessions[s].editContext
              THEN edits + 1 ELSE edits
  /\ sessions' = [sessions EXCEPT ![s] = IdleSession]
  /\ UNCHANGED <<messages, fileCache, requests, oneSessionVars, mediatorVars>>

\* lines 2109-2128: the task fails and records nothing
SessionFailed(s) ==
  /\ sessions[s].pc = "generating"
  /\ sessions' = [sessions EXCEPT ![s] = IdleSession]
  /\ UNCHANGED <<historyVars, fileCache, requests, oneSessionVars, mediatorVars>>

NextSessions ==
  \/ \E s \in Sessions, edit \in BOOLEAN, sandbox \in BOOLEAN :
       SessionPost(s, edit, sandbox)
  \/ \E s \in Sessions : SessionRejected(s)
  \/ \E s \in Sessions, found \in BOOLEAN : SessionContext(s, found)
  \/ \E s \in Sessions, data \in FetchResults, analysed \in BOOLEAN :
       SessionFetched(s, data, analysed)
  \/ \E s \in Sessions : SessionFetchFailed(s)
  \/ \E s \in Sessions : SessionComplete(s)
  \/ \E s \in Sessions : SessionFailed(s)

SpecSessions == InitSessions /\ [][NextSessions]_vars

(***************************************************************************)
(* The mediator server: /telegram/link (src/server/src/routes/mediator.js, *)
(* lines 133-143).  A handler is cut at its awaits, where the handler of   *)
(* another request can run.                                                *)
(***************************************************************************)
\* the code of the LinkCode document in the database
LinkCodeIssued == "c0de"

\* the request bodies explored: the issued code, another code, no code, with
\* the Telegram account of the request or without one
LinkCodesTried == {LinkCodeIssued, "zzzz", ""}

TelegramIdOf(r) == CASE r = 1 -> "t1" [] r = 2 -> "t2" [] OTHER -> "t3"

\* a server on which no generation request is in progress
NoSession ==
  /\ prompt = SomePrompt
  /\ textStream = <<>>
  /\ chunking = "whole"
  /\ isEdit = FALSE
  /\ response = 0
  /\ observer = "reading"
  /\ pc = "mediator"
  /\ delivered = 0
  /\ chunks = 0
  /\ generatedCode = <<>>
  /\ currentFile = <<>>
  /\ currentFilePath = <<>>
  /\ componentCount = 0
  /\ isInFile = FALSE
  /\ isInTag = FALSE
  /\ conversationalBuffer = <<>>
  /\ tagBuffer = <<>>
  /\ packagesToInstall = <<>>
  /\ files = <<>>
  /\ truncationWarnings = <<>>
  /\ truncatedFiles = <<>>
  /\ repairIndex = 0
  /\ repairRequests = <<>>
  /\ events = <<>>
  /\ FreshServer

\* the variables of the generation server
generationVars == <<oneSessionVars, historyVars, sessionsVars>>

InitLink == NoSession /\ FreshMediator

\* lines 134-136: the body is read; without code or telegramId the answer is
\* 400, otherwise LinkCode.findOne is awaited
LinkReceive(r, code, telegramId) ==
  /\ linkRequests[r].pc = "idle"
  /\ linkRequests' = [linkRequests EXCEPT ![r] =
       IF code = "" \/ telegramId = ""
       THEN [@ EXCEPT !.pc = "done", !.code = code, !.telegramId = telegramId,
                      !.status = 400]
       ELSE [@ EXCEPT !.pc = "finding", !.code = code,
                      !.telegramId = telegramId]]
  /\ UNCHANGED <<linkUsedAt, userTelegramId, exec, generationVars>>

\* lines 136-138: findOne returns the document as it is now; no document or
\* a used one is answered with 400, otherwise User.findByIdAndUpdate is awaited
LinkFound(r) ==
  /\ linkRequests[r].pc = "finding"
  /\ linkRequests' = [linkRequests EXCEPT ![r] =
       IF linkRequests[r].code # LinkCodeIssued \/ linkUsedAt
       THEN [@ EXCEPT !.pc = "done", !.status = 400]
       ELSE [@ EXCEPT !.pc = "updating", !.usedAt = linkUsedAt]]
  /\ UNCHANGED <<linkUsedAt, userTelegramId, exec, generationVars>>

\* lines 138-140: the user's telegramId is written; usedAt is set on the
\* document in memory and link.save is awaited
LinkUpdated(r) ==
  /\ linkRequests[r].pc = "updating"
  /\ userTelegramId' = linkRequests[r].telegramId
  /\ linkRequests' = [linkRequests EXCEPT ![r] =
                        [@ EXCEPT !.pc = "saving", !.usedAt = TRUE]]
  /\ UNCHANGED <<linkUsedAt, exec, generationVars>>

\* lines 140-141: the document is saved and the request answered with ok
LinkSaved(r) ==
  /\ linkRequests[r].pc = "saving"
  /\ linkUsedAt' = linkRequests[r].usedAt
  /\ linkRequests' = [linkRequests EXCEPT ![r] =
                        [@ EXCEPT !.pc = "done", !.status = 200]]
  /\ UNCHANGED <<userTelegramId, exec, generationVars>>

NextLink ==
  \/ \E r \in LinkRequests, code \in LinkCodesTried :
         \E telegramId \in {"", TelegramIdOf(r)} :
            LinkReceive(r, code, telegramId)
  \/ \E r \in LinkRequests : LinkFound(r)
  \/ \E r \in LinkRequests : LinkUpdated(r)
  \/ \E r \in LinkRequests : LinkSaved(r)

SpecLink == InitLink /\ [][NextLink]_vars

(***************************************************************************)
(* The mediator server: /exec (src/server/src/routes/mediator.js, lines    *)
(* 37-111).  jwt.verify is the library's: it returns the claims of a token *)
(* signed with the secret and not expired, and throws for any other.       *)
(***************************************************************************)
\* the tokens presented: none, one that does not verify, one that has
\* expired, one that verifies
TokensTried == {"none", "invalid", "expired", "valid"}

\* the action names of the four branches, and one that has no branch
GithubActions == {"read_repo", "create_repo", "delete_repo", "list_prs"}

ActionsTried == GithubActions \cup {"rename_repo"}

\* the response of the step that follows an awaited audit record
StatusAfter(step, action) ==
  CASE step = "denied" -> 403
    [] step = "notfound" -> 404
    [] step = "badpayload" -> 400
    [] step = "unknown" -> 400
    [] OTHER -> IF action = "create_repo" THEN 201 ELSE 200

InitExec == NoSession /\ FreshMediator

\* a reception that does not compare the action with the actions claim (a
\* mutant of ExecReceive)
ExecReceiveSkipsClaim(mediatorJwt, actions, action, payload, encryptedGithubToken) ==
  /\ exec.pc = "idle"
  /\ exec' = [exec EXCEPT
       !.mediatorJwt = mediatorJwt, !.actions = actions, !.action = action,
       !.payload = payload, !.encryptedGithubToken = encryptedGithubToken,
       !.pc = CASE mediatorJwt = "none" \/ action = "" -> "done"
                [] mediatorJwt # "valid" -> "catch"
                [] OTHER -> "finding",
       !.status = IF mediatorJwt = "none" \/ action = "" THEN 400 ELSE 0]
  /\ UNCHANGED <<linkUsedAt, userTelegramId, linkRequests, generationVars>>

\* lines 41-49: the body is read; without mediatorJwt or action the answer
\* is 400; jwt.verify throws for a token that does not verify; an action
\* that is not in the actions claim is audited and refused; otherwise the
\* user is looked up.  payload tells whether the body has the fields the
\* action requires, encryptedGithubToken whether the user of the token has a
\* stored token
ExecReceive(mediatorJwt, actions, action, payload, encryptedGithubToken) ==
  /\ exec.pc = "idle"
  /\ exec' = [exec EXCEPT
       !.mediatorJwt = mediatorJwt, !.actions = actions, !.action = action,
       !.payload = payload, !.encryptedGithubToken = encryptedGithubToken,
       !.pc = CASE mediatorJwt = "none" \/ action = "" -> "done"
                [] mediatorJwt # "valid" -> "catch"
                [] action \notin actions -> "denied"
                [] OTHER -> "finding",
       !.status = IF mediatorJwt = "none" \/ action = "" THEN 400 ELSE 0]
  /\ UNCHANGED <<linkUsedAt, userTelegramId, linkRequests, generationVars>>

\* lines 49-100: User.findById returns or throws; a user without a stored
\* token is audited and refused; the token is decrypted and the branch of
\* the action taken: a branch whose required fields are missing, and an
\* action without a branch, are audited and refused, the others await the
\* GitHub call
ExecUserFound(ok) ==
  /\ exec.pc = "finding"
  /\ exec' = [exec EXCEPT !.pc =
       CASE ~ok -> "catch"
         [] ~exec.encryptedGithubToken -> "notfound"
         [] exec.action = "read_repo" -> "calling"
         [] exec.action \in GithubActions ->
              IF exec.payload THEN "calling" ELSE "badpayload"
         [] OTHER -> "unknown"]
  /\ UNCHANGED <<linkUsedAt, userTelegramId, linkRequests, generationVars>>

\* lines 59, 69, 82, 94: the request to api.github.com with the decrypted
\* token is made; it returns or throws
ExecCalled(ok) ==
  /\ exec.pc = "calling"
  /\ exec' = [exec EXCEPT !.githubCalls = @ + 1,
                          !.pc = IF ok THEN "succeeded" ELSE "catch"]
  /\ UNCHANGED <<linkUsedAt, userTelegramId, linkRequests, generationVars>>

\* lines 45-46, 51-52, 60-61, 66-67, 70-71, 79-80, 84-85, 91-92, 96-97,
\* 100-101: MediatorAudit.create is awaited and the response sent; a create
\* that throws goes to the catch
ExecAudited(ok) ==
  /\ exec.pc \in {"denied", "notfound", "badpayload", "unknown", "succeeded"}
  /\ exec' = IF ok
             THEN [exec EXCEPT !.pc = "done", !.audits = @ + 1,
                               !.status = StatusAfter(exec.pc, exec.action)]
             ELSE [exec EXCEPT !.pc = "catch"]
  /\ UNCHANGED <<linkUsedAt, userTelegramId, linkRequests, generationVars>>

\* lines 102-110: the catch writes an audit record, ignoring its failure,
\* and answers 500
ExecCatch(ok) ==
  /\ exec.pc = "catch"
  /\ exec' = [exec EXCEPT !.pc = "done", !.status = 500,
                          !.audits = IF ok THEN @ + 1 ELSE @]
  /\ UNCHANGED <<linkUsedAt, userTelegramId, linkRequests, generationVars>>

NextExec ==
  \/ \E mediatorJwt \in TokensTried, actions \in SUBSET ActionsTried,
        action \in ActionsTried \cup {""}, payload \in BOOLEAN,
        encryptedGithubToken \in BOOLEAN :
       ExecReceive(mediatorJwt, actions, action, payload, encryptedGithubToken)
  \/ \E ok \in BOOLEAN : ExecUserFound(ok)
  \/ \E ok \in BOOLEAN : ExecCalled(ok)
  \/ \E ok \in BOOLEAN : ExecAudited(ok)
  \/ \E ok \in BOOLEAN : ExecCatch(ok)

SpecExec == InitExec /\ [][NextExec]_vars

(***************************************************************************)
(* Properties.                                                             *)
(***************************************************************************)
\* the chunk loop ended normally and the pass over the output has run
StreamEnded ==
  \/ pc \in {"ended", "detected", "repairing", "awaiting", "finishing"}
  \/ pc = "closed" /\ events # <<>> /\ events[Len(events)].type = "complete"

\* the session has sent its `complete` event
SessionCompleted ==
  pc = "closed" /\ events # <<>> /\ events[Len(events)].type = "complete"

\* the events of one type, in order
EventsOfType(type) == SelectSeq(events, LAMBDA e : e.type = type)

WellFormed == textStream \in WellFormedStreams

\* the document the provider streams
Doc == CHOOSE d \in WellFormedDocs : Render(d) = textStream

\* the file records a document holds, in order, with trimmed payloads
FileRecords(doc) ==
  LET fs == SelectSeq(doc, LAMBDA it : it.kind = "file")
  IN  [k \in 1..Len(fs) |-> [path |-> fs[k].path, content |-> Trim(fs[k].body)]]

\* C1: for a well-formed stream the list of (path, trimmed payload) pairs
\* extracted after stream end is the list of the document's file records,
\* the same for every way of cutting the text into chunks
C1_ExtractionIgnoresChunking ==
  (StreamEnded /\ WellFormed) => files = FileRecords(Doc)

\* the two records of Scenario A extracted from a stream of one-character chunks
C1_Witness ==
  /\ pc = "ended" /\ chunking = "perChar" /\ chunks > 2
  /\ textStream = Render(DocTwoFiles)
  /\ files = FileRecords(DocTwoFiles) /\ Len(files) = 2

\* the paths of a document that follow the component naming convention
ComponentPaths(doc) ==
  {doc[k].path : k \in {i \in 1..Len(doc) :
      /\ doc[i].kind = "file"
      /\ Includes(doc[i].path, <<"c","o","m","p","o","n","e","n","t","s","/">>)}}

\* C2: a session over a well-formed stream of N component records emits exactly
\* N `component` events over its lifetime, one per record, for every chunking
C2_OneComponentEventPerRecord ==
  (SessionCompleted /\ WellFormed) =>
    /\ Len(EventsOfType("component")) = Cardinality(ComponentPaths(Doc))
    /\ \A p \in ComponentPaths(Doc) :
         Len(SelectSeq(EventsOfType("component"), LAMBDA e : e.path = p)) = 1

\* the (path, payload) pairs of the complete file records of a text, in order
Extractable(code) ==
  LET ms == FileMatches(code, 1, FALSE)
  IN  [k \in 1..Len(ms) |-> [path |-> ms[k].path, content |-> ms[k].content]]

\* the payloads a repair can put into the output
RepairedPayloads ==
  {<<"\n">> \o CleanContent(c) \o <<"\n">> : c \in RepairContents}

\* the step of RepairDone: the only step that leaves "awaiting" without an event
RepairDoneStep == pc = "awaiting" /\ pc' = "repairing" /\ events' = events

\* a complete record of the path under repair that the second fileRegex loop
\* selected as truncated
IsFaultedRecord(r) ==
  /\ r.path = truncatedFiles[repairIndex]
  /\ IsTruncated([path |-> r.path, content |-> r.content])

UnclosedPaths(code) ==
  LET ms == FileMatches(code, 1, TRUE)
  IN  IF ms # <<>> /\ Len(ms) > Len(FileMatches(code, 1, FALSE))
      THEN {ms[Len(ms)].path} ELSE {}

\* the records the fault report names: the paths of its per-file warnings and,
\* for an "unclosed" warning, the record left open
ReportedFaulted ==
  {truncationWarnings[k].path :
     k \in {i \in 1..Len(truncationWarnings) :
              truncationWarnings[i].kind # "unclosed"}}
  \cup (IF \E k \in 1..Len(truncationWarnings) :
              truncationWarnings[k].kind = "unclosed"
        THEN UnclosedPaths(textStream) ELSE {})

\* the repair stage is over and the fault report has not been cleared yet
RepairsAttempted ==
  \/ pc = "repairing" /\ repairIndex > Len(truncatedFiles)
  \/ pc = "finishing" /\ truncationWarnings # <<>>

\* C4: the records a repair request is issued for are exactly the records the
\* fault report names
C4_RepairsExactlyReportedFaults ==
  RepairsAttempted =>
    {repairRequests[k] : k \in 1..Len(repairRequests)} = ReportedFaulted

TerminalEvents ==
  SelectSeq(events, LAMBDA e : e.type \in {"complete", "error"})

\* C5: a closed session has sent exactly one terminal event, `complete` or
\* `error`, and it is the last event
C5_ExactlyOneTerminalEvent ==
  pc = "closed" =>
    /\ Len(TerminalEvents) = 1
    /\ events[Len(events)].type \in {"complete", "error"}

\* C6: a session whose stream failed after some chunks sends no `error`; it
\* sends a `warning` and ends with `complete` carrying the text received
C6_StreamFailureIsStreamEnd ==
  (pc = "closed" /\ chunks >= 1 /\ delivered < Len(textStream)) =>
    /\ EventsOfType("error") = <<>>
    /\ EventsOfType("warning") # <<>>
    /\ events[Len(events)].type = "complete"
    /\ files = Extractable(SubSeq(textStream, 1, delivered))

\* the output holds an open marker that opens no complete record
HasUnclosedRecord(code) ==
  CountOf(code, FILE_OPEN) > Len(FileMatches(code, 1, FALSE))

HasUnclosedFault ==
  \E k \in 1..Len(truncationWarnings) : truncationWarnings[k].kind = "unclosed"

\* C7 as stated: whenever the output holds a record whose open marker has no
\* close marker, the fault report holds an "unclosed" fault, also when a
\* stray close marker makes the marker counts equal
C7_UnclosedAlwaysReported ==
  (pc = "detected" /\ HasUnclosedRecord(generatedCode)) => HasUnclosedFault

\* C7 as amended: whenever the output holds a record whose open marker has no
\* close marker and the numbers of open and close markers differ, the fault
\* report holds an "unclosed" fault
C7_UnclosedReportedOnCountMismatch ==
  (/\ pc = "detected"
   /\ HasUnclosedRecord(generatedCode)
   /\ CountOf(generatedCode, FILE_OPEN) # CountOf(generatedCode, FILE_CLOSE))
  => HasUnclosedFault

\* the record of b.txt left open is reported after a.js was closed
C7_Witness ==
  /\ pc = "detected"
  /\ textStream = TextShortAndUnclosed
  /\ HasUnclosedRecord(generatedCode)
  /\ HasUnclosedFault

\* C8: Scenario B gives one `conversation` event with the text before the
\* marker, one "unclosed" fault, one repair request for x.txt, and then x.txt
\* closed with the repaired content or a `warning` after a failed repair
C8_ScenarioB ==
  textStream = TextScenarioB =>
    /\ pc = "detected" =>
         /\ Len(truncationWarnings) = 1
         /\ HasUnclosedFault
    /\ SessionCompleted =>
         /\ EventsOfType("conversation") =
              <<ConversationEvent(
                  <<"S","u","r","e",","," ","h","e","r","e"," ","i","s"," ",
                    "y","o","u","r"," ","c","o","d","e",":">>)>>
         /\ repairRequests = << <<"x",".","t","x","t">> >>
         /\ \/ \E r \in RepairedPayloads :
                 Extractable(generatedCode)
                 = <<[path |-> <<"x",".","t","x","t">>, content |-> r]>>
            \/ /\ generatedCode = textStream
               /\ \E k \in 1..Len(events) :
                    /\ events[k].type = "warning"
                    /\ events[k].path = <<"x",".","t","x","t">>

\* C9: Scenario A extracts (a.txt, hello) then (b.txt, world), sends no
\* `conversation` event up to the end of the session and reports no fault
C9_ScenarioA ==
  (chunking = "planned" /\ textStream = Render(DocTwoFiles)) =>
    /\ EventsOfType("conversation") = <<>>
    /\ StreamEnded => files = FileRecords(DocTwoFiles)
    /\ pc = "detected" => truncationWarnings = <<>>

\* the dependency names a document declares, by directive or by import
DeclaredDependencies(doc) ==
  CASE doc = DocDependencies -> { <<"x">>, <<"y">>, <<"z">> }
    [] doc = DocPackageTwice -> { <<"x">> }
    [] OTHER -> {}

PackageEventsOf(name) ==
  SelectSeq(events, LAMBDA e : e.type = "package" /\ e.name = name)

\* C10: in an edit session no dependency name has more than one `package`
\* event, and once the pass over the output has run every declared name has
\* exactly one and no other name has any, for every chunking
C10_OnePackageEventPerName ==
  isEdit =>
    /\ \A k \in 1..Len(events) :
         events[k].type = "package" => Len(PackageEventsOf(events[k].name)) = 1
    /\ (StreamEnded /\ WellFormed) =>
         {e.name : e \in {events[k] : k \in {i \in 1..Len(events) :
                                              events[i].type = "package"}}}
         = DeclaredDependencies(Doc)

\* x was declared by a <package> directive split over two chunks, by the
\* <packages> directive and by an import, and has one event
C10_Witness ==
  /\ isEdit /\ pc = "ended" /\ chunking = "free" /\ chunks = 2
  /\ textStream = Render(DocDependencies)
  /\ ~Includes(EventsOfType("stream")[1].text, PACKAGE_CLOSE)
  /\ Len(PackageEventsOf(<<"x">>)) = 1
  /\ Len(EventsOfType("package")) = 3

\* C11: in a session with edit-mode false no `package` event is emitted and
\* the `complete` event carries no dependency list, whatever directives and
\* import statements the stream holds
C11_NoDependenciesWithoutEdit ==
  ~isEdit =>
    /\ EventsOfType("package") = <<>>
    /\ packagesToInstall = <<>>
    /\ \A k \in 1..Len(events) :
         events[k].type = "complete" => events[k].packagesToInstall = <<>>

\* a generation session has completed over the stream with a <package> and a
\* <packages> directive and a file with two imports
C11_Witness ==
  /\ ~isEdit /\ SessionCompleted
  /\ textStream = Render(DocDependencies)
  /\ Len(files) = 1
  /\ extractPackagesFromCode(files[1].content) # <<>>
  /\ PackagesNames(generatedCode) # <<>>

\* the step of EndOfStream: the pass over the full output after the chunk loop
EndOfStreamStep == pc = "streaming" /\ pc' = "ended"

\* C12: the pass over the full output after stream end emits no completion
\* event (`component`, `app`) for a record whose completion event was already
\* emitted while streaming
C12_NoSecondCompletionEvent ==
  [][EndOfStreamStep =>
       \A k \in (Len(events) + 1)..Len(events') :
         events'[k].type \in {"component", "app"} =>
           \A j \in 1..Len(events) :
             ~(/\ events[j].type = events'[k].type
               /\ events[j].path = events'[k].path)]_vars

\* the step of RepairFailed: the only step that leaves "awaiting" with an event
RepairFailedStep == pc = "awaiting" /\ pc' # "awaiting" /\ events' # events

\* the `warning` events that name a file
FileWarningEvents ==
  SelectSeq(events, LAMBDA e : e.type = "warning" /\ e.path # <<>>)

\* C13: a failed repair call leaves the reconstructed output as it was and
\* emits one `warning` naming the file of the call; the loop goes on with the
\* next faulted record, so that every file chosen for repair has been
\* requested when the repair stage is over, and a closed session with a
\* failed repair has ended with `complete`
C13_FailedRepairIsLocal ==
  /\ [][RepairFailedStep =>
          /\ generatedCode' = generatedCode
          /\ events' = Append(events, events'[Len(events')])
          /\ events'[Len(events')].type = "warning"
          /\ events'[Len(events')].path = repairRequests[Len(repairRequests)]
          /\ pc' = "repairing"
          /\ repairIndex' = repairIndex + 1]_vars
  /\ []((pc \in {"finishing", "closed"} /\ FileWarningEvents # <<>>)
          => repairRequests = truncatedFiles)
  /\ []((pc = "closed" /\ FileWarningEvents # <<>>)
          => events[Len(events)].type = "complete")

\* the repair of a.js failed, b.js was requested after it, and the session
\* completed
C13_Witness ==
  /\ SessionCompleted
  /\ textStream = TextTwoTruncated
  /\ repairRequests = << <<"a",".","j","s">>, <<"b",".","j","s">> >>
  /\ FileWarningEvents # <<>>
  /\ FileWarningEvents[1].path = <<"a",".","j","s">>
  /\ generatedCode # textStream

\* C14: when the session completes, every fault reported after the stream
\* that the final output still has is listed in the `warnings` of the
\* `complete` event
C14_ResidualFaultsAreWarned ==
  SessionCompleted =>
    \A k \in 1..Len(DetectTruncation(generatedCode)) :
      ArrIncludes(DetectTruncation(textStream),
                  DetectTruncation(generatedCode)[k])
      => ArrIncludes(events[Len(events)].warnings,
                     DetectTruncation(generatedCode)[k])

\* the text of a document that lies outside the markers
ConversationText(doc) ==
  Flatten([k \in 1..Len(doc) |->
             IF doc[k].kind = "conv" THEN doc[k].body ELSE <<>>])

\* the concatenated text of the `conversation` events
ConversationSent ==
  Flatten([k \in 1..Len(EventsOfType("conversation")) |->
             EventsOfType("conversation")[k].text])

\* C15: in a completed session over a well-formed stream the concatenated
\* text of the `conversation` events is the text outside the markers (compared
\* up to surrounding blanks), also when the text and an open marker arrive in
\* one chunk
C15_ConversationIsForwarded ==
  (SessionCompleted /\ WellFormed) =>
    Trim(ConversationSent) = Trim(ConversationText(Doc))

\* C16: a request without request text is answered with an error (status
\* 400), starts no session, yields no records and emits no progress event
C16_MissingPromptIsRejected ==
  prompt = <<>> =>
    /\ pc \in {"received", "rejected"}
    /\ pc = "rejected" => response = 400
    /\ events = <<>>
    /\ files = <<>>
    /\ generatedCode = <<>>

\* the request without prompt has been answered
C16_Witness ==
  prompt = <<>> /\ pc = "rejected" /\ response = 400 /\ events = <<>>

\* C17: with an observer that has stopped reading, the chunk loop can still
\* ingest the next chunk of the stream
C17_IngestNeverWaitsOnObserver ==
  (observer = "stalled" /\ pc = "streaming" /\ delivered < Len(textStream))
  => ENABLED (\E n \in 1..(Len(textStream) - delivered) : Ingest(n))

\* the phases of the session's state machine, in order
PhaseOf(p) ==
  CASE p \in {"received", "started"} -> 0
    [] p = "streaming" -> 1
    [] p = "ended" -> 2
    [] p = "detected" -> 3
    [] p \in {"repairing", "awaiting"} -> 4
    [] p = "finishing" -> 5
    [] OTHER -> 6

\* the repair requests issued and not yet returned or failed
Outstanding == Len(repairRequests) - Max({repairIndex - 1, 0})

\* C18: the phases occur in the order Streaming, StreamEnded, FaultDetected,
\* Repairing, Completed: no step goes back, a chunk is ingested only while
\* streaming, fault detection runs once, right after the stream ended, and
\* `complete` is emitted only when no repair request is outstanding, with no
\* request issued after it
C18_PhasesInOrder ==
  [][/\ PhaseOf(pc') >= PhaseOf(pc)
     /\ (delivered' # delivered \/ chunks' # chunks)
          => (pc = "streaming" /\ pc' = "streaming")
     /\ (pc' = "detected" /\ pc # "detected") => pc = "ended"
     /\ (truncationWarnings' # truncationWarnings /\ truncationWarnings' # <<>>)
          => (pc = "ended" /\ truncationWarnings = <<>>)
     /\ (events' # events /\ events'[Len(events')].type = "complete")
          => /\ pc = "finishing"
             /\ Outstanding = 0
             /\ repairRequests = truncatedFiles
             /\ Len(repairRequests') = Len(repairRequests)
     /\ (repairRequests' # repairRequests) => pc = "repairing"]_vars

\* a session went through every phase, with two repair requests
C18_Witness ==
  /\ SessionCompleted
  /\ textStream = TextTwoTruncated
  /\ chunks > 1
  /\ Len(repairRequests) = 2
  /\ EventsOfType("warning") # <<>>

\* C19: fault detection and repair run only in a session whose chunk stream
\* reached its natural end: when the stream is aborted, or the observer
\* cancels while the stream has not ended, no fault detection is performed
\* and no repair request is issued
C19_NoDetectionUnlessNaturalEnd ==
  /\ observer = "cancelled"
       => /\ pc \notin {"detected", "repairing", "awaiting", "finishing"}
          /\ truncationWarnings = <<>>
          /\ repairRequests = <<>>
  /\ (pc = "closed" /\ delivered < Len(textStream))
       => /\ truncationWarnings = <<>>
          /\ repairRequests = <<>>

\* C20: the repair requests of a session are strictly sequential: at most one
\* request is outstanding, exactly while the task awaits it, the requests
\* follow the order of the files to repair, a request is issued only when the
\* one before it has returned, and the record is replaced in the step in which
\* its request returns
C20_RepairsAreSequential ==
  /\ [](/\ Outstanding \in {0, 1}
        /\ Outstanding = 1 <=> pc = "awaiting"
        /\ Len(repairRequests) <= Len(truncatedFiles)
        /\ repairRequests = SubSeq(truncatedFiles, 1, Len(repairRequests)))
  /\ [][/\ repairRequests' # repairRequests
             => /\ Outstanding = 0
                /\ generatedCode' = generatedCode
                /\ Len(repairRequests') = Len(repairRequests) + 1
        /\ (PhaseOf(pc) = 4 /\ generatedCode' # generatedCode)
             => /\ Outstanding = 1
                /\ Outstanding' = 0]_vars

\* the second file is requested after the first one was replaced
C20_Witness ==
  /\ textStream = TextTwoTruncated
  /\ Len(repairRequests) = 2
  /\ pc = "awaiting"
  /\ generatedCode # textStream

\* C21: the look-back buffer kept between chunks is bounded: after every
\* ingested chunk it holds at most the TagLookBack characters the code means
\* to keep, however much text was streamed and whether or not a dependency
\* directive was matched
C21_LookBackIsBounded == Len(tagBuffer) <= TagLookBack

\* C22: a marker split across two consecutive chunks toggles the in-record
\* flag as it would inside a single chunk: when neither of the last two
\* chunks shows a marker and their concatenation does, isInTag is what the
\* loop makes of the concatenation (false after a close marker, true after
\* an open marker without one)
C22_SplitMarkerIsDetected ==
  LET s == EventsOfType("stream")
      n == Len(s)
  IN  (pc = "streaming" /\ n >= 2) =>
        LET c1 == s[n - 1].text
            c2 == s[n].text
            both == c1 \o c2
        IN  (~HasOpenTag(c1) /\ ~HasCloseTag(c1)
             /\ ~HasOpenTag(c2) /\ ~HasCloseTag(c2))
              => /\ HasCloseTag(both) => ~isInTag
                 /\ (HasOpenTag(both) /\ ~HasCloseTag(both)) => isInTag

\* the text t shows payload of the file record it: the open marker of the
\* record with the first character behind it, or the last character of the
\* payload with the close marker behind it
ShowsPayload(t, it) ==
  /\ it.body # <<>>
  /\ \/ Includes(t, FILE_OPEN \o it.path \o <<"\"", ">">> \o <<Head(it.body)>>)
     \/ Includes(t, <<it.body[Len(it.body)]>> \o FILE_CLOSE)

\* C23: for a well-formed stream and any chunking no `conversation` event
\* carries text that lies between the open and the close marker of a record
C23_NoPayloadInConversation ==
  WellFormed =>
    \A k \in 1..Len(events) :
      events[k].type = "conversation" =>
        \A j \in 1..Len(Doc) :
          Doc[j].kind = "file" => ~ShowsPayload(events[k].text, Doc[j])

\* an iteration of the chunk loop
IngestStep == pc = "streaming" /\ delivered' > delivered

\* the `conversation` events among the first n events
ConversationTexts(n) ==
  SelectSeq(SubSeq(events, 1, n), LAMBDA e : e.type = "conversation")

StreamedText ==
  Flatten([k \in 1..Len(EventsOfType("stream")) |->
             EventsOfType("stream")[k].text])

\* C25: there is one `stream` event per ingested chunk, in arrival order and
\* with the chunk's text: the events' texts concatenate to the text delivered
\* so far, which is the reconstructed output until a repair rewrites it, and
\* an iteration appends its chunk both to the output and as a `stream` event
C25_StreamEventsMirrorChunks ==
  /\ [](/\ Len(EventsOfType("stream")) = chunks
        /\ StreamedText = SubSeq(textStream, 1, delivered)
        /\ repairIndex = 0 => generatedCode = StreamedText)
  /\ [][IngestStep
        => LET text == SubSeq(textStream, delivered + 1, delivered')
           IN  /\ generatedCode' = generatedCode \o text
               /\ Len(SelectSeq(SubSeq(events', Len(events) + 1, Len(events')),
                                LAMBDA e : e.type = "stream")) = 1
               /\ \E k \in (Len(events) + 1)..Len(events') :
                    events'[k].type = "stream" /\ events'[k].text = text]_vars

\* the stream ended after two chunks or more, the last one with a blank at
\* an end
C25_Witness ==
  /\ pc = "ended"
  /\ chunks >= 2
  /\ Len(EventsOfType("stream")) >= 2
  /\ \E k \in 1..Len(events) :
       /\ events[k].type = "stream"
       /\ events[k].text # Trim(events[k].text)
  /\ generatedCode = textStream

\* C26: no dependency collected from an import statement is a relative or
\* absolute path, an internal alias (@/) or a host module: neither react nor
\* react-dom is collected, also from a sub-path import of theirs
C26_NoHostModuleCollected ==
  pc = "extracted" =>
    \A k \in 1..Len(packagesToInstall) :
      /\ packagesToInstall[k] \notin {<<"r","e","a","c","t">>,
                                      <<"r","e","a","c","t","-","d","o","m">>}
      /\ ~StartsWithAt(packagesToInstall[k], <<".">>, 1)
      /\ ~StartsWithAt(packagesToInstall[k], <<"/">>, 1)
      /\ ~StartsWithAt(packagesToInstall[k], <<"@","/">>, 1)

\* C27: at most one repair request is issued per faulted record identity,
\* also when the same path occurs more than once in the output
C27_OneRepairPerIdentity ==
  \A i, j \in 1..Len(repairRequests) :
    repairRequests[i] = repairRequests[j] => i = j

\* C28: the path is a unique key of the final record set: files holds one
\* record per path, and the file count of the `complete` event counts every
\* path once
C28_PathIsUniqueKey ==
  /\ \A i, j \in 1..Len(files) : files[i].path = files[j].path => i = j
  /\ \A k \in 1..Len(events) :
       events[k].type = "complete" =>
         events[k].files = Cardinality({files[i].path : i \in 1..Len(files)})

\* C29: two requests in progress share no mutable state besides the
\* conversation history: no step of one request writes the sandbox file
\* cache while another request is in progress, which reads it (lines 168,
\* 1021 and 1121)
C29_SessionsShareOnlyHistory ==
  [][\A s \in Sessions :
       (sessions'[s] # sessions[s]
        /\ \E t \in Sessions \ {s} : sessions[t].pc # "idle")
         => fileCache' = fileCache]_vars

\* C30: once every request has finished, the conversation history holds at
\* most MaxMessages messages and at most MaxEdits edit records
C30_HistoryIsBounded ==
  (\A s \in Sessions : sessions[s].pc = "idle")
    => messages <= MaxMessages /\ edits <= MaxEdits

\* C31: a request rejected for its missing request text leaves the
\* conversation history as it was: no message is added, nothing is cut
C31_RejectionKeepsHistory ==
  [][(pc = "received" /\ pc' = "rejected")
       => (messages' = messages /\ edits' = edits)]_vars

\* C32: for a well-formed stream and every chunking the `components` count
\* of the `complete` event is the number of file records whose path follows
\* the component naming convention
C32_ComponentCountIsExact ==
  (SessionCompleted /\ WellFormed) =>
    events[Len(events)].components
      = Len(SelectSeq(Doc, LAMBDA it :
          /\ it.kind = "file"
          /\ Includes(it.path, <<"c","o","m","p","o","n","e","n","t","s","/">>)))

\* the names of the <package> directives of a document, in order, each once
DirectiveNames(doc) ==
  LET ps == SelectSeq(doc, LAMBDA it : it.kind = "package")
      names == [k \in 1..Len(ps) |-> Trim(ps[k].body)]
      first == {k \in 1..Len(ps) : \A j \in 1..(k - 1) : names[j] # names[k]}
      nth(i) == CHOOSE k \in first : Cardinality({j \in first : j < k}) = i - 1
  IN  [i \in 1..Cardinality(first) |-> names[nth(i)]]

\* the dependency list of a document: directives first, then imports
DependencyList(doc) ==
  CASE doc = DocDependencies -> << <<"x">>, <<"y">>, <<"z">> >>
    [] doc = DocPackageTwice -> << <<"x">> >>
    [] OTHER -> <<>>

\* C33: in an edit session over a well-formed stream the dependency list does
\* not depend on the chunking: when the last chunk is ingested the list holds
\* the name of every <package> directive once, wherever the chunks cut the
\* directives, and after the pass over the output it is the document's
\* dependency list
C33_DependenciesIgnoreChunking ==
  (isEdit /\ WellFormed) =>
    /\ (pc = "streaming" /\ delivered = Len(textStream))
         => packagesToInstall = DirectiveNames(Doc)
    /\ StreamEnded => packagesToInstall = DependencyList(Doc)

\* every directive arrived cut into single characters and was collected
C33_Witness ==
  /\ isEdit
  /\ chunking = "perChar"
  /\ pc = "streaming"
  /\ delivered = Len(textStream)
  /\ packagesToInstall = << <<"x">> >>

\* C34: when fault detection reported no fault (no `warning` event was sent),
\* the output carried by the `complete` event is the concatenation of the
\* ingested chunks, character for character: extraction, dependency
\* collection and progress reporting leave the reconstructed output alone
C34_OutputIsTheChunks ==
  (SessionCompleted /\ EventsOfType("warning") = <<>>) =>
    /\ events[Len(events)].text = StreamedText
    /\ events[Len(events)].text = textStream
    /\ generatedCode = textStream

\* a session without fault that extracted records and collected dependencies
\* from several chunks
C34_Witness ==
  /\ SessionCompleted
  /\ EventsOfType("warning") = <<>>
  /\ chunks >= 2
  /\ Len(files) >= 1
  /\ Len(packagesToInstall) >= 2
  /\ events[Len(events)].text = textStream

\* C35: a link code binds at most one Telegram account: of the requests that
\* present the code at most one succeeds, whatever their interleaving, and a
\* request that finds the code used is rejected and changes no user
C35_LinkCodeBindsOnce ==
  /\ [](Cardinality({r \in LinkRequests : linkRequests[r].status = 200}) <= 1)
  /\ [][\A r \in LinkRequests :
          (linkRequests[r].pc = "finding" /\ linkUsedAt
           /\ linkRequests'[r] # linkRequests[r])
            => /\ linkRequests'[r].status = 400
               /\ userTelegramId' = userTelegramId]_vars

\* the request is one /exec serves: the token verifies, its actions claim
\* contains the requested action, and the user has a stored token
ExecAllowed ==
  /\ exec.mediatorJwt = "valid"
  /\ exec.action # ""
  /\ exec.action \in exec.actions
  /\ exec.encryptedGithubToken

\* C36: /exec calls GitHub only for a token that verifies and whose actions
\* claim contains the requested action, the user having a stored token; in
\* every other case no call is made, at no step, and the response is an error
C36_CallOnlyWhenAllowed ==
  /\ exec.githubCalls > 0 => ExecAllowed
  /\ (exec.pc # "idle" /\ ~ExecAllowed) =>
        /\ exec.githubCalls = 0
        /\ exec.pc # "calling"
        /\ exec.pc = "done" => exec.status \in {400, 403, 404, 500}

\* C36 happens: an allowed read_repo was served with one call and answered 200
C36_Witness ==
  /\ exec.pc = "done"
  /\ ExecAllowed
  /\ exec.action = "read_repo"
  /\ exec.githubCalls = 1
  /\ exec.status = 200

====
